---- MODULE Spec2Model ----
(***************************************************************************)
(* A model of the desktop binary-artifact decoder of icq_parser.py: the    *)
(* primitive readers, the message-history handler table, the record-stream *)
(* engine of DesktopParser.get_db_content and DesktopParser.get_info_cache. *)
(*                                                                         *)
(* Representation.  A file is a sequence of bytes (0..255).  A Python      *)
(* value is a record [t, v]: t names the Python type and v is a sequence   *)
(* of naturals: the little-endian base-256 digits of an int (no leading    *)
(* zero digit), the code points of a str, <<0>> or <<1>> for a bool.  A    *)
(* dict is a function over its keys; {} is <<>>.  A cursor is a Python int *)
(* that the code only compares with buffer lengths: the model keeps it     *)
(* exact below Far and collapses every larger value to Far.                *)
(***************************************************************************)
EXTENDS Integers, Sequences, FiniteSets, TLC

Far == 1073741824

(* saturating addition of cursors and lengths *)
Add(a, n) == IF a >= Far \/ n >= Far - a THEN Far ELSE a + n

(* ---------------------------------------------------------------------- *)
(* Python values and dicts                                                 *)
(* ---------------------------------------------------------------------- *)
V(t, v) == [t |-> t, v |-> v]
None == V("None", <<>>)
PyInt(d) == V("int", d)
PyStr(s) == V("str", s)
PyBool(b) == V("bool", IF b THEN <<1>> ELSE <<0>>)

EmptyDict == <<>>
Has(d, k) == k \in DOMAIN d
Put(d, k, v) == [x \in (DOMAIN d) \cup {k} |-> IF x = k THEN v ELSE d[x]]

(* ---------------------------------------------------------------------- *)
(* Bytes and integers                                                      *)
(* ---------------------------------------------------------------------- *)

(* buf[a : a + n] of a bytes object or memoryview: clamped to the buffer *)
Slice(buf, a, n) ==
    IF a >= Len(buf) \/ n <= 0 THEN <<>>
    ELSE IF n >= Len(buf) - a THEN SubSeq(buf, a + 1, Len(buf))
    ELSE SubSeq(buf, a + 1, a + n)

(* buf[a:] *)
Drop(buf, a) == IF a >= Len(buf) THEN <<>> ELSE SubSeq(buf, a + 1, Len(buf))

RECURSIVE Norm(_)
Norm(d) == IF d = <<>> THEN <<>>
           ELSE IF d[Len(d)] = 0 THEN Norm(SubSeq(d, 1, Len(d) - 1))
           ELSE d

(* the int a little-endian byte string denotes, as digits *)
LE(bytes) == Norm(bytes)

(* the int a big-endian byte string denotes, as digits *)
RECURSIVE Reverse(_)
Reverse(s) == IF s = <<>> THEN <<>> ELSE Append(Reverse(Tail(s)), Head(s))
BE(bytes) == Norm(Reverse(bytes))

(* a little-endian u32 as a cursor-sized number *)
U32(b) == IF b[4] >= 64 THEN Far
          ELSE b[1] + 256 * b[2] + 65536 * b[3] + 16777216 * b[4]

(* a small int from its digits; Far when it does not fit *)
ToNat(d) == IF Len(d) > 4 THEN Far
            ELSE U32(d \o SubSeq(<<0, 0, 0, 0>>, 1, 4 - Len(d)))

(* the digits of a small natural *)
RECURSIVE Digits(_)
Digits(n) == IF n = 0 THEN <<>> ELSE <<n % 256>> \o Digits(n \div 256)

(* struct.unpack_from("<II", buf, off): the two u32 of a header *)
UnpackII(buf, off) == <<U32(SubSeq(buf, off + 1, off + 4)),
                        U32(SubSeq(buf, off + 5, off + 8))>>

(* length -> number of bytes of the first item of the struct format;       *)
(* the format's calcsize is the length itself                              *)
STRUCT_DICT == (1 :> 1) @@ (2 :> 2) @@ (4 :> 4) @@ (8 :> 4) @@ (12 :> 4) @@ (16 :> 4)

UINT32_MAX == <<255, 255, 255, 255>>
UINT64_MAX == <<255, 255, 255, 255, 255, 255, 255, 255>>

(* ---------------------------------------------------------------------- *)
(* Text                                                                    *)
(* ---------------------------------------------------------------------- *)

IsCont(b) == b >= 128 /\ b <= 191

(* bytes.decode("utf-8"): [ok, s]; ok is FALSE for UnicodeDecodeError *)
RECURSIVE Utf8(_)
Utf8(b) ==
    IF b = <<>> THEN [ok |-> TRUE, s |-> <<>>]
    ELSE LET c == b[1]
             n == IF c < 128 THEN 1
                  ELSE IF c >= 194 /\ c <= 223 THEN 2
                  ELSE IF c >= 224 /\ c <= 239 THEN 3
                  ELSE IF c >= 240 /\ c <= 244 THEN 4
                  ELSE 0
             good == /\ n > 0
                     /\ Len(b) >= n
                     /\ \A i \in 2..n : IsCont(b[i])
                     /\ (c = 224 => b[2] >= 160)
                     /\ (c = 237 => b[2] <= 159)
                     /\ (c = 240 => b[2] >= 144)
                     /\ (c = 244 => b[2] <= 143)
         IN IF ~good THEN [ok |-> FALSE, s |-> <<>>]
            ELSE LET cp == CASE n = 1 -> c
                             [] n = 2 -> (c - 192) * 64 + (b[2] - 128)
                             [] n = 3 -> (c - 224) * 4096 + (b[2] - 128) * 64
                                         + (b[3] - 128)
                             [] n = 4 -> (c - 240) * 262144 + (b[2] - 128) * 4096
                                         + (b[3] - 128) * 64 + (b[4] - 128)
                     rest == Utf8(Drop(b, n))
                 IN [ok |-> rest.ok, s |-> <<cp>> \o rest.s]

IsPrefix(p, s) == Len(p) <= Len(s) /\ SubSeq(s, 1, Len(p)) = p

(* p in s, for str *)
IsSubstr(p, s) == \E i \in 0..(Len(s) - Len(p)) : SubSeq(s, i + 1, i + Len(p)) = p

(* s.replace(old, new) *)
RECURSIVE Replace(_, _, _)
Replace(s, old, new) ==
    IF s = <<>> THEN <<>>
    ELSE IF IsPrefix(old, s) THEN new \o Replace(Drop(s, Len(old)), old, new)
    ELSE <<Head(s)>> \o Replace(Tail(s), old, new)

S_http == <<104, 116, 116, 112>>
S_hxxp == <<104, 120, 120, 112>>
S_ftp == <<102, 116, 112, 58, 47, 47>>
S_fxx == <<102, 120, 120, 58, 47, 47>>
S_None == <<78, 111, 110, 101>>
S_deleted == <<77, 101, 115, 115, 97, 103, 101, 32, 119, 97, 115, 32,
               100, 101, 108, 101, 116, 101, 100>>

sanitize(data) ==
    IF data = <<>> THEN data
    ELSE Replace(Replace(data, S_http, S_hxxp), S_ftp, S_fxx)

(* ---------------------------------------------------------------------- *)
(* datetime.fromtimestamp(ts, utc).strftime("%Y-%m-%d %H:%M:%S")           *)
(* ---------------------------------------------------------------------- *)
Dig(n) == 48 + n
D2(n) == <<Dig(n \div 10), Dig(n % 10)>>
D4(n) == <<Dig(n \div 1000), Dig((n \div 100) % 10), Dig((n \div 10) % 10), Dig(n % 10)>>

(* ts: the digits of a u32.  2^24 = 194 * 86400 + 15616 *)
strftime(ts) ==
    LET b == ts \o SubSeq(<<0, 0, 0, 0>>, 1, 4 - Len(ts))
        low == b[1] + 256 * b[2] + 65536 * b[3] + 15616 * b[4]
        days == 194 * b[4] + (low \div 86400)
        secs == low % 86400
        z == days + 719468
        era == z \div 146097
        doe == z - era * 146097
        yoe == (doe - (doe \div 1460) + (doe \div 36524) - (doe \div 146096)) \div 365
        doy == doe - (365 * yoe + (yoe \div 4) - (yoe \div 100))
        mp == (5 * doy + 2) \div 153
        d == doy - ((153 * mp + 2) \div 5) + 1
        m == IF mp < 10 THEN mp + 3 ELSE mp - 9
        y == yoe + era * 400 + (IF m <= 2 THEN 1 ELSE 0)
    IN D4(y) \o <<45>> \o D2(m) \o <<45>> \o D2(d) \o <<32>>
       \o D2(secs \div 3600) \o <<58>> \o D2((secs \div 60) % 60) \o <<58>>
       \o D2(secs % 60)

(* ---------------------------------------------------------------------- *)
(* Enumerations and handler tables                                         *)
(* ---------------------------------------------------------------------- *)
DIRECTION(b) == IF b THEN <<79, 85, 84, 71, 79, 73, 78, 71>>
                ELSE <<73, 78, 67, 79, 77, 73, 78, 71>>

VOIP_DIRECTION == (0 :> DIRECTION(TRUE)) @@ (1 :> DIRECTION(FALSE))

handlers ==
    (0 :> <<"read_size", "CALL_LOG_CACHE_BLOCK_SIZE", "None">>) @@
    (1 :> <<"read_message_id", "MESSAGE_ID", "MESSAGE">>) @@
    (2 :> <<"read_message_flags", "FLAGS", "MESSAGE">>) @@
    (3 :> <<"read_time", "TIME", "MESSAGE">>) @@
    (4 :> <<"read_text", "WID", "MESSAGE">>) @@
    (5 :> <<"read_text", "TEXT", "None">>) @@
    (6 :> <<"read_size", "CHAT_BLOCK_SIZE", "None">>) @@
    (7 :> <<"read_size", "STICKER_BLOCK_SIZE", "None">>) @@
    (8 :> <<"read_size", "MULT", "None">>) @@
    (9 :> <<"read_size", "VOIP_BLOCK_SIZE", "None">>) @@
    (10 :> <<"read_text", "STICKER_ID", "MESSAGE">>) @@
    (11 :> <<"read_text", "CHAT_SENDER", "MESSAGE">>) @@
    (12 :> <<"read_text", "CHAT_NAME", "MESSAGE">>) @@
    (13 :> <<"read_message_id", "PREVIOUS_MESSAGE_ID_WITH_", "MESSAGE">>) @@
    (14 :> <<"read_text", "INTERNAL_ID", "MESSAGE">>) @@
    (15 :> <<"read_text", "CHAT_FRIENDLY_NAME", "MESSAGE">>) @@
    (16 :> <<"read_size", "FILE_SHARING_BLOCK_SIZE", "None">>) @@
    (17 :> <<"read_size", "FILE_SHARING_FLAGS", "None">>) @@
    (18 :> <<"read_text", "FILE_SHARING_URI", "MESSAGE">>) @@
    (19 :> <<"read_text", "FILE_SHARING_LOCAL_PATH", "MESSAGE">>) @@
    (20 :> <<"read_heads", "CHAT_HEADS", "None">>) @@
    (21 :> <<"read_text", "SENDER_FRIENDLY_NAME", "MESSAGE">>) @@
    (22 :> <<"read_size", "CHAT_EVENT_BLOCK_SIZE", "None">>) @@
    (23 :> <<"read_lookup_value", "CHAT_EVENT_TYPE", "MESSAGE">>) @@
    (24 :> <<"read_text", "CHAT_EVENT_SENDER_FRIENDLY_NAME", "MESSAGE">>) @@
    (25 :> <<"read_chat_members", "CHAT_EVENT_MCHAT_MEMBERS", "MESSAGE">>) @@
    (26 :> <<"read_text", "CHAT_EVENT_NEW_CHAT_NAME", "MESSAGE">>) @@
    (27 :> <<"read_lookup_value", "VOIP_EVENT_TYPE", "VOIP">>) @@
    (28 :> <<"read_text", "VOIP_SENDER_FRIENDLY_NAME", "VOIP">>) @@
    (29 :> <<"read_text", "VOIP_SENDER_AIMID", "VOIP">>) @@
    (30 :> <<"read_value", "VOIP_DURATION", "VOIP">>) @@
    (31 :> <<"read_lookup_value", "VOIP_DIRECTION", "VOIP">>) @@
    (32 :> <<"read_text", "CHAT_EVENT_GENERIC TEXT", "MESSAGE">>) @@
    (33 :> <<"read_text", "CHAT_EVENT_NEW_CHAT_DESCRIPTION", "MESSAGE">>) @@
    (34 :> <<"read_text", "QUOTE_TEXT", "MESSAGE">>) @@
    (35 :> <<"read_text", "QUOTE_SENDER_SN", "MESSAGE">>) @@
    (36 :> <<"read_message_id", "QUOTE_MESSAGE_ID", "MESSAGE">>) @@
    (37 :> <<"read_time", "QUOTE_TIME", "MESSAGE">>) @@
    (38 :> <<"read_text", "QUOTE_CHAT_ID", "MESSAGE">>) @@
    (39 :> <<"read_size", "QUOTE", "None">>) @@
    (40 :> <<"read_text", "QUOTE_SENDER_FRIENDLY_NAME", "MESSAGE">>) @@
    (41 :> <<"read_bool", "QUOTE_IS_FORWARDED", "MESSAGE">>) @@
    (42 :> <<"read_text", "CHAT_EVENT_NEW_CHAT_RULES", "MESSAGE">>) @@
    (43 :> <<"read_text", "CHAT_EVENT_SENDER_AIMID", "MESSAGE">>) @@
    (44 :> <<"read_value", "QUOTE_SET_ID", "None">>) @@
    (45 :> <<"read_value", "QUOTE_STICKER_ID", "None">>) @@
    (46 :> <<"read_text", "QUOTE_CHAT_STAMP", "MESSAGE">>) @@
    (47 :> <<"read_text", "QUOTE_CHAT_NAME", "MESSAGE">>) @@
    (48 :> <<"read_size", "MENTION_BLOCK_SIZE", "None">>) @@
    (49 :> <<"read_text", "MENTIONER", "MESSAGE">>) @@
    (50 :> <<"read_text", "MENTIONER_FRIENDLY_NAME", "MESSAGE">>) @@
    (51 :> <<"read_chat_members", "CHAT_EVENT_MCHAT_MEMBERS_AIMIDS", "MESSAGE">>) @@
    (52 :> <<"read_text", "UPDATE_PATCH_VERSION", "MESSAGE">>) @@
    (53 :> <<"read_size", "SNIPPED_BLOCK_SIZE", "None">>) @@
    (54 :> <<"read_text", "SNIPPET_URL", "MESSAGE">>) @@
    (55 :> <<"read_text", "SNIPPET_CONTENT_TYPE", "MESSAGE">>) @@
    (56 :> <<"read_text", "SNIPPET_PREVIEW_URL", "MESSAGE">>) @@
    (57 :> <<"read_value", "SNIPPET_PREVIEW_WIDTH", "MESSAGE">>) @@
    (58 :> <<"read_value", "SNIPPET_PREVIEW_HEIGHT", "MESSAGE">>) @@
    (59 :> <<"read_text", "SNIPPET_PREVIEW_TITLE", "MESSAGE">>) @@
    (60 :> <<"read_text", "SNIPPET_DESCRIPTION", "MESSAGE">>) @@
    (61 :> <<"read_text", "VOIP_CONFERENCE_MEMBERS", "VOIP">>) @@
    (62 :> <<"read_bool", "VOIP_IS_VIDEO", "VOIP">>) @@
    (63 :> <<"read_size", "IS_CAPTCHA_PRESENT", "None">>) @@
    (64 :> <<"read_text", "DESCRIPTION", "MESSAGE">>) @@
    (65 :> <<"read_text", "URL", "MESSAGE">>) @@
    (66 :> <<"read_text", "QUOTE_URL", "MESSAGE">>) @@
    (67 :> <<"read_text", "QUOTE_DESCRIPTION", "MESSAGE">>) @@
    (68 :> <<"read_value", "OFFLINE_VERSION", "None">>) @@
    (69 :> <<"read_lookup_value", "IS_OFFICIAL", "MESSAGE">>) @@
    (70 :> <<"read_size", "SHARED_CONTACT", "None">>) @@
    (71 :> <<"read_text", "SHARED_CONTACT_NAME", "MESSAGE">>) @@
    (72 :> <<"read_text", "SHARED_CONTACT_PHONE_NUMBER", "MESSAGE">>) @@
    (73 :> <<"read_text", "SHARED_CONTACT_SN", "MESSAGE">>) @@
    (74 :> <<"read_text", "FILE_SHARING_BASE_CONTENT_TYPE", "MESSAGE">>) @@
    (75 :> <<"read_value", "FILE_SHARING_DURATION", "MESSAGE">>) @@
    (76 :> <<"read_size", "GEO_DATA_BLOCK_SIZE", "None">>) @@
    (77 :> <<"read_text", "GEOGRAPHIC_NAME", "MESSAGE">>) @@
    (78 :> <<"read_text", "LATITUDE", "MESSAGE">>) @@
    (79 :> <<"read_text", "LONGITUDE", "MESSAGE">>) @@
    (80 :> <<"read_bool", "CHAT_IS_CHANNEL", "MESSAGE">>) @@
    (81 :> <<"read_size", "POLL_BLK_SIZE", "None">>) @@
    (82 :> <<"read_text", "POLL_ID", "MESSAGE">>) @@
    (83 :> <<"read_text", "POLL_ANSWER", "MESSAGE">>) @@
    (84 :> <<"read_value", "POLL_TYPE", "MESSAGE">>) @@
    (85 :> <<"read_text", "CHAT_EVENT_NEW_CHAT_STAMP", "MESSAGE">>) @@
    (86 :> <<"read_value", "JSON_BLOCK_SIZE", "None">>) @@
    (87 :> <<"read_text", "SENDER_AIMID", "MESSAGE">>) @@
    (88 :> <<"read_unknown", "BUTTONS", "None">>) @@
    (89 :> <<"read_bool", "HIDE_EDIT", "None">>) @@
    (90 :> <<"read_text", "CHAT_REQUESTED_BY", "MESSAGE">>) @@
    (91 :> <<"read_text", "CHAT_REQUESTER_FRIENDLY_NAME", "MESSAGE">>) @@
    (92 :> <<"read_text", "VOIP_CALL_AIMID", "VOIP">>) @@
    (93 :> <<"read_text", "VOIP_SID", "VOIP">>) @@
    (94 :> <<"read_size", "REACTIONS_BLOCK", "None">>) @@
    (95 :> <<"read_bool", "REACTIONS_EXISTS", "MESSAGE">>) @@
    (96 :> <<"read_text", "CHAT_EVENT_SENDER_STATUS", "MESSAGE">>) @@
    (97 :> <<"read_text", "CHAT_EVENT_OWNER_STATUS", "MESSAGE">>) @@
    (98 :> <<"read_text", "CHAT_EVENT_SENDER_STATUS_DESCRIPTION", "MESSAGE">>) @@
    (99 :> <<"read_text", "CHAT_EVENT_OWNER_STATUS_DESCRIPTION", "MESSAGE">>) @@
    (100 :> <<"read_size", "FORMAT_BLOCK_SIZE", "None">>) @@
    (101 :> <<"read_unknown", "FORMAT_OFFSET", "None">>) @@
    (102 :> <<"read_unknown", "FORMAT_LENGTH", "None">>) @@
    (103 :> <<"read_unknown", "FORMAT_DATA", "None">>) @@
    (104 :> <<"read_format_flags", "FORMAT_BOLD", "None">>) @@
    (105 :> <<"read_format_flags", "FORMAT_ITALIC", "None">>) @@
    (106 :> <<"read_format_flags", "FORMAT_UNDERLINE", "None">>) @@
    (107 :> <<"read_format_flags", "FORMAT_STRIKETHROUGH", "None">>) @@
    (108 :> <<"read_format_flags", "FORMAT_INLINE_CODE", "None">>) @@
    (109 :> <<"read_format_flags", "FORMAT_URL", "None">>) @@
    (110 :> <<"read_format_flags", "FORMAT_MENTION", "None">>) @@
    (111 :> <<"read_format_flags", "FORMAT_QUOTE", "None">>) @@
    (112 :> <<"read_format_flags", "FORMAT_PRE", "None">>) @@
    (113 :> <<"read_format_flags", "FORMAT_ORDERED_LIST", "None">>) @@
    (114 :> <<"read_format_flags", "FORMAT_UNORDERED_LIST", "None">>) @@
    (115 :> <<"read_unknown", "DESCRIPTION_FORMAT", "None">>) @@
    (116 :> <<"read_size", "TASK_BLOCK_SIZE", "None">>) @@
    (117 :> <<"read_value", "TASK_ID", "MESSAGE">>) @@
    (118 :> <<"read_text", "TASK_TITLE", "MESSAGE">>) @@
    (119 :> <<"read_text", "TASK_ASSIGNEE", "MESSAGE">>) @@
    (120 :> <<"read_time", "TASK_END_TIME", "MESSAGE">>) @@
    (121 :> <<"read_value", "THREAD_ID", "MESSAGE">>) @@
    (122 :> <<"read_text", "TASK_STATUS", "MESSAGE">>) @@
    (123 :> <<"read_text", "CHAT_EVENT_TASK_EDITOR">>) @@
    (124 :> <<"read_unknown", "FORMAT_START_INDEX", "None">>) @@
    (125 :> <<"read_bool", "CHAT_EVENT_THREADS_ENABLED", "MESSAGE">>)

my_info_handlers ==
    (1 :> <<"read_text", "AIMID">>) @@
    (2 :> <<"read_text", "DISPLAY_ID">>) @@
    (3 :> <<"read_text", "FRIENDLY_NAME">>) @@
    (4 :> <<"read_text", "STATE">>) @@
    (5 :> <<"read_text", "USER_TYPE">>) @@
    (6 :> <<"read_text", "ATTACHED_PHONE_NUMBER">>) @@
    (7 :> <<"read_value", "GLOBAL_FLAGS">>) @@
    (8 :> <<"read_bool", "AUTO_CREATED">>) @@
    (9 :> <<"read_bool", "HAS_MAIL">>) @@
    (10 :> <<"read_bool", "READ_USER_AGREEMENT">>) @@
    (11 :> <<"read_bool", "ACCOUNT_IS_OFFICIAL">>) @@
    (12 :> <<"read_text", "NICKNAME">>)

dialog_state_handlers ==
    (1 :> <<"read_value", "UNREAD_COUNT", "DIALOG_STATE">>) @@
    (2 :> <<"read_message_id", "LAST_MESSAGE_ID", "DIALOG_STATE">>) @@
    (3 :> <<"read_message_id", "YOURS_LAST_READ", "DIALOG_STATE">>) @@
    (4 :> <<"read_message_id", "THEIRS_LAST_READ", "DIALOG_STATE">>) @@
    (5 :> <<"read_message_id", "THEIRS_LAST_DELIVERED", "DIALOG_STATE">>) @@
    (7 :> <<"read_size", "LAST_MESSAGE_CONTENT_SIZE", "DIALOG_STATE">>) @@
    (8 :> <<"read_bool", "VISIBLE", "DIALOG_STATE">>) @@
    (9 :> <<"read_unknown", "LAST_MESSAGE_FRIENDLY_UNUSED", "None">>) @@
    (10 :> <<"read_text", "PATCH_VERSION", "None">>) @@
    (11 :> <<"read_message_id", "DEL_UP_TO", "None">>) @@
    (12 :> <<"read_text", "FRIENDLY_NAME", "DIALOG_STATE">>) @@
    (13 :> <<"read_bool", "OFFICIAL", "DIALOG_STATE">>) @@
    (14 :> <<"read_bool", "FAKE", "DIALOG_STATE">>) @@
    (15 :> <<"read_message_id", "HIDDEN_MESSAGE_ID", "DIALOG_STATE">>) @@
    (16 :> <<"read_value", "UNREAD_MENTIONS_COUNT", "DIALOG_STATE">>) @@
    (17 :> <<"read_unknown", "PINNED_MESSAGE", "None">>) @@
    (18 :> <<"read_bool", "ATTENTION", "None">>) @@
    (19 :> <<"read_bool", "SUSPICIOUS", "None">>) @@
    (20 :> <<"read_size", "HEADS_SIZE", "None">>) @@
    (21 :> <<"read_text", "HEAD_AIMID", "DIALOG_STATE">>) @@
    (22 :> <<"read_text", "HEAD_FRIENDLY_NAME", "DIALOG_STATE">>) @@
    (23 :> <<"read_message_id", "LAST_READ_MENTION", "DIALOG_STATE">>) @@
    (24 :> <<"read_bool", "STRANGER", "DIALOG_STATE">>) @@
    (25 :> <<"read_text", "INFO_VERSION", "None">>) @@
    (26 :> <<"read_value", "NO_RECENTS_UPDATE", "None">>) @@
    (27 :> <<"read_text", "MEMBERS_VERSION", "None">>)

VOIP_EVENT ==
    (0 :> <<105, 110, 118, 97, 108, 105, 100>>) @@
    (1 :> <<109, 105, 110>>) @@
    (2 :> <<109, 105, 115, 115, 101, 100, 32, 99, 97, 108, 108>>) @@
    (3 :> <<99, 97, 108, 108, 32, 101, 110, 100, 101, 100>>) @@
    (4 :> <<99, 97, 108, 108, 32, 97, 99, 99, 101, 112, 116, 101, 100>>) @@
    (5 :> <<99, 97, 108, 108, 32, 100, 101, 99, 108, 105, 110, 101, 100>>) @@
    (6 :> <<109, 97, 120>>)

CHAT_EVENT ==
    (0 :> <<105, 110, 118, 97, 108, 105, 100>>) @@
    (1 :> <<109, 105, 110>>) @@
    (2 :> <<97, 100, 100, 101, 100, 32, 116, 111, 32, 98, 117, 100, 100, 121, 32, 108, 105, 115, 116>>) @@
    (3 :> <<97, 100, 100, 32, 109, 101, 109, 98, 101, 114, 115, 32, 116, 111, 32, 99, 104, 97, 116>>) @@
    (4 :> <<105, 110, 118, 105, 116, 101>>) @@
    (5 :> <<108, 101, 97, 118, 101>>) @@
    (6 :> <<100, 101, 108, 101, 116, 101, 32, 109, 101, 109, 98, 101, 114, 115, 32, 102, 114, 111, 109, 32, 99, 104, 97, 116>>) @@
    (7 :> <<107, 105, 99, 107, 101, 100>>) @@
    (8 :> <<99, 104, 97, 116, 32, 110, 97, 109, 101, 32, 109, 111, 100, 105, 102, 105, 101, 100>>) @@
    (9 :> <<98, 117, 100, 100, 121, 32, 114, 101, 103, 105, 115, 116, 101, 114, 101, 100>>) @@
    (10 :> <<98, 117, 100, 100, 121, 32, 102, 111, 117, 110, 100>>) @@
    (11 :> <<98, 105, 114, 116, 104, 100, 97, 121>>) @@
    (12 :> <<97, 118, 97, 116, 97, 114, 32, 109, 111, 100, 105, 102, 105, 101, 100>>) @@
    (13 :> <<103, 101, 110, 101, 114, 105, 99>>) @@
    (14 :> <<99, 104, 97, 116, 32, 100, 101, 115, 99, 114, 105, 112, 116, 105, 111, 110, 32, 109, 111, 100, 105, 102, 105, 101, 100>>) @@
    (15 :> <<109, 101, 115, 115, 97, 103, 101, 32, 100, 101, 108, 101, 116, 101, 100>>) @@
    (16 :> <<99, 104, 97, 116, 32, 114, 117, 108, 101, 115, 32, 109, 111, 100, 105, 102, 105, 101, 100>>) @@
    (17 :> <<99, 104, 97, 116, 32, 115, 116, 97, 109, 112, 32, 109, 111, 100, 105, 102, 105, 101, 100>>) @@
    (18 :> <<99, 104, 97, 116, 32, 106, 111, 105, 110, 32, 109, 111, 100, 101, 114, 97, 116, 105, 111, 110, 32, 109, 111, 100, 105, 102, 105, 101, 100>>) @@
    (19 :> <<99, 104, 97, 116, 32, 112, 117, 98, 108, 105, 99, 32, 109, 111, 100, 105, 102, 105, 101, 100>>) @@
    (20 :> <<99, 104, 97, 116, 32, 116, 114, 117, 115, 116, 32, 114, 101, 113, 117, 105, 114, 101, 100, 32, 109, 111, 100, 105, 102, 105, 101, 100>>) @@
    (21 :> <<99, 104, 97, 116, 32, 116, 104, 114, 101, 97, 100, 115, 32, 101, 110, 97, 98, 108, 101, 100, 32, 109, 111, 100, 105, 102, 105, 101, 100>>) @@
    (22 :> <<109, 99, 104, 97, 116, 32, 97, 100, 109, 105, 110, 32, 103, 114, 97, 110, 116, 101, 100>>) @@
    (23 :> <<109, 99, 104, 97, 116, 32, 97, 100, 109, 105, 110, 32, 114, 101, 118, 111, 107, 101, 100>>) @@
    (24 :> <<109, 99, 104, 97, 116, 32, 97, 108, 108, 111, 119, 101, 100, 32, 116, 111, 32, 119, 114, 105, 116, 101>>) @@
    (25 :> <<109, 99, 104, 97, 116, 32, 100, 105, 115, 97, 108, 108, 111, 119, 101, 100, 32, 116, 111, 32, 119, 114, 105, 116, 101>>) @@
    (26 :> <<109, 99, 104, 97, 116, 32, 119, 97, 105, 116, 105, 110, 103, 32, 102, 111, 114, 32, 97, 112, 112, 114, 111, 118, 97, 108>>) @@
    (27 :> <<109, 99, 104, 97, 116, 32, 106, 111, 105, 110, 105, 110, 103, 32, 97, 112, 112, 114, 111, 118, 101, 100>>) @@
    (28 :> <<109, 99, 104, 97, 116, 32, 106, 111, 105, 110, 105, 110, 103, 32, 114, 101, 106, 101, 99, 116, 101, 100>>) @@
    (29 :> <<109, 99, 104, 97, 116, 32, 106, 111, 105, 110, 105, 110, 103, 32, 99, 97, 110, 99, 101, 108, 101, 100>>) @@
    (30 :> <<119, 97, 114, 110, 32, 97, 98, 111, 117, 116, 32, 115, 116, 114, 97, 110, 103, 101, 114>>) @@
    (31 :> <<110, 111, 32, 108, 111, 110, 103, 101, 114, 32, 115, 116, 114, 97, 110, 103, 101, 114>>) @@
    (32 :> <<115, 116, 97, 116, 117, 115, 32, 114, 101, 112, 108, 121>>) @@
    (33 :> <<99, 117, 115, 116, 111, 109, 32, 115, 116, 97, 116, 117, 115, 32, 114, 101, 112, 108, 121>>) @@
    (34 :> <<116, 97, 115, 107, 32, 99, 104, 97, 110, 103, 101, 100>>) @@
    (35 :> <<109, 97, 120>>)

FORMAT_FLAGS ==
    <<<<98, 111, 108, 100>>,
      <<105, 116, 97, 108, 105, 99>>,
      <<117, 110, 100, 101, 114, 108, 105, 110, 101>>,
      <<115, 116, 114, 105, 107, 101, 116, 104, 114, 111, 117, 103, 104>>,
      <<109, 111, 110, 111, 115, 112, 97, 99, 101>>,
      <<108, 105, 110, 107>>,
      <<109, 101, 110, 116, 105, 111, 110>>,
      <<113, 117, 111, 116, 101>>,
      <<112, 114, 101>>,
      <<111, 114, 100, 101, 114, 101, 100, 95, 108, 105, 115, 116>>,
      <<117, 110, 111, 114, 100, 101, 114, 101, 100, 95, 108, 105, 115, 116>>>>
(* ---------------------------------------------------------------------- *)
(* Primitive readers.  A reader takes the parser attributes it may write,  *)
(* the field header chunk = <<tag, length>>, the block and the cursor, and *)
(* returns [ok, value, offset, parser]; ok = FALSE is a raised exception.  *)
(* ---------------------------------------------------------------------- *)
Ret(value, offset, parser) ==
    [ok |-> TRUE, value |-> value, offset |-> offset, parser |-> parser]
Raise(offset, parser) ==
    [ok |-> FALSE, value |-> None, offset |-> offset, parser |-> parser]

(* struct.unpack_from(STRUCT_DICT[length], blk[offset : offset + length])[0]: *)
(* [ok, d]; not ok for KeyError (length) and struct.error (short buffer)      *)
UnpackFirst(length, blk, offset) ==
    IF length \notin DOMAIN STRUCT_DICT THEN [ok |-> FALSE, d |-> <<>>]
    ELSE LET s == Slice(blk, offset, length)
         IN IF Len(s) < length THEN [ok |-> FALSE, d |-> <<>>]
            ELSE [ok |-> TRUE, d |-> LE(SubSeq(s, 1, STRUCT_DICT[length]))]

(* read_time with only 4294967295 mapped to None *)
read_time_maxonly(parser, chunk, blk, offset) ==
    LET sig == chunk[1]
        length == chunk[2]
        u == UnpackFirst(length, blk, Add(offset, 8))
        ts == IF u.d = UINT32_MAX THEN None ELSE PyStr(strftime(u.d))
    IN IF ~u.ok THEN Raise(Add(offset, 8), parser)
       ELSE Ret(ts, Add(Add(offset, 8), length),
                IF sig = 3 THEN [parser EXCEPT !.RAW_TIME = u.d] ELSE parser)

read_time(parser, chunk, blk, offset) ==
    LET sig == chunk[1]
        length == chunk[2]
        u == UnpackFirst(length, blk, Add(offset, 8))
        ts == IF u.d = UINT32_MAX \/ u.d = <<>> THEN None ELSE PyStr(strftime(u.d))
    IN IF ~u.ok THEN Raise(Add(offset, 8), parser)
       ELSE Ret(ts, Add(Add(offset, 8), length),
                IF sig = 3 THEN [parser EXCEPT !.RAW_TIME = u.d] ELSE parser)

read_message_id(parser, chunk, blk, offset) ==
    LET length == chunk[2]
        s == Slice(blk, Add(offset, 8), length)
        msg_id == LE(SubSeq(s, 1, 8))
    IN IF Len(s) < 8 THEN Raise(Add(offset, 8), parser)
       ELSE Ret(IF msg_id = UINT64_MAX THEN None ELSE PyInt(msg_id),
                Add(Add(offset, 8), length), parser)

(* seeded fault: read_text without line 1593, the scratch cell is not set *)
read_text_nocell(parser, chunk, blk, offset) ==
    LET length == chunk[2]
        text == Utf8(Slice(blk, Add(offset, 8), length))
    IN IF ~text.ok THEN Raise(Add(offset, 8), parser)
       ELSE Ret(PyStr(sanitize(text.s)), Add(Add(offset, 8), length), parser)

read_text(parser, chunk, blk, offset) ==
    LET sig == chunk[1]
        length == chunk[2]
        text == Utf8(Slice(blk, Add(offset, 8), length))
    IN IF ~text.ok THEN Raise(Add(offset, 8), parser)
       ELSE Ret(PyStr(sanitize(text.s)), Add(Add(offset, 8), length),
                IF sig = 5 THEN [parser EXCEPT !.msg = PyStr(sanitize(text.s))]
                ELSE parser)

read_bool(parser, chunk, blk, offset) ==
    LET length == chunk[2]
        s == Slice(blk, Add(offset, 8), length)
    IN IF Len(s) < 1 THEN Raise(Add(offset, 8), parser)
       ELSE Ret(PyBool(s[1] # 0), Add(Add(offset, 8), length), parser)

read_value(parser, chunk, blk, offset) ==
    LET sig == chunk[1]
        length == chunk[2]
        off == Add(offset, 8)
        s == Slice(blk, off, length)
    IN IF length = 0 THEN Ret(None, off, parser)
       ELSE IF sig = 69
       THEN IF Len(s) < 2 THEN Raise(off, parser)
            ELSE Ret(PyInt(BE(SubSeq(s, 1, 2))), Add(off, length), parser)
       ELSE LET u == UnpackFirst(length, blk, off)
            IN IF ~u.ok THEN Raise(off, parser)
               ELSE Ret(PyInt(u.d), Add(off, length), parser)

(* table[value] of a dict keyed by small ints: not ok for KeyError *)
Lookup(table, value) ==
    IF value.t = "int" /\ ToNat(value.v) \in DOMAIN table
    THEN [ok |-> TRUE, value |-> PyStr(table[ToNat(value.v)])]
    ELSE [ok |-> FALSE, value |-> None]

(* lines 1623-1631: the look-up of the value r that read_value returned *)
LookupRet(sig, r, parser) ==
    IF ~r.ok THEN r
    ELSE IF sig = 23
    THEN (IF Lookup(CHAT_EVENT, r.value).ok
          THEN Ret(Lookup(CHAT_EVENT, r.value).value, r.offset, parser)
          ELSE Raise(r.offset, parser))
    ELSE IF sig = 27
    THEN (IF Lookup(VOIP_EVENT, r.value).ok
          THEN Ret(Lookup(VOIP_EVENT, r.value).value, r.offset, parser)
          ELSE Raise(r.offset, parser))
    ELSE IF sig = 31
    THEN (IF Lookup(VOIP_DIRECTION, r.value).ok
          THEN Ret(Lookup(VOIP_DIRECTION, r.value).value, r.offset, parser)
          ELSE Raise(r.offset, parser))
    ELSE IF sig = 69
    THEN Ret(PyBool(r.value.t = "int" /\ r.value.v # <<>>), r.offset, parser)
    ELSE r

read_lookup_value(parser, chunk, blk, offset) ==
    LookupRet(chunk[1], read_value(parser, chunk, blk, offset), parser)

read_size(parser, chunk, blk, offset) == Ret(None, Add(offset, 8), parser)

read_unknown(parser, chunk, blk, offset) ==
    LET value_size == chunk[2]
        off == Add(offset, 8)
    IN IF value_size = 0 THEN Ret(None, off, parser)
       ELSE IF ~UnpackFirst(value_size, blk, off).ok THEN Raise(off, parser)
       ELSE Ret(None, Add(off, value_size), parser)

(* value & (1 << k), for the digits of value *)
Bit(d, k) == Len(d) > k \div 8 /\ (d[(k \div 8) + 1] \div (2 ^ (k % 8))) % 2 = 1

(* read_message_flags with DELETED read from bit 4 and OUTGOING from bit 1 *)
read_message_flags_shifted(parser, chunk, blk, offset) ==
    LET length == chunk[2]
        u == UnpackFirst(length, blk, Add(offset, 8))
        flags == [UNREAD |-> PyBool(Bit(u.d, 1)),
                  OUTGOING |-> PyBool(Bit(u.d, 1)),
                  INVISIBLE |-> PyBool(Bit(u.d, 3)),
                  DELETED |-> PyBool(Bit(u.d, 4)),
                  MODIFIED |-> PyBool(Bit(u.d, 6)),
                  UPDATED |-> PyBool(Bit(u.d, 7)),
                  CLEAR |-> PyBool(Bit(u.d, 8))]
    IN IF ~u.ok THEN Raise(Add(offset, 8), parser)
       ELSE Ret(V("dict", flags), Add(Add(offset, 8), length), parser)

read_message_flags(parser, chunk, blk, offset) ==
    LET length == chunk[2]
        u == UnpackFirst(length, blk, Add(offset, 8))
        flags == [UNREAD |-> PyBool(Bit(u.d, 1)),
                  OUTGOING |-> PyBool(Bit(u.d, 2)),
                  INVISIBLE |-> PyBool(Bit(u.d, 3)),
                  DELETED |-> PyBool(Bit(u.d, 5)),
                  MODIFIED |-> PyBool(Bit(u.d, 6)),
                  UPDATED |-> PyBool(Bit(u.d, 7)),
                  CLEAR |-> PyBool(Bit(u.d, 8))]
    IN IF ~u.ok THEN Raise(Add(offset, 8), parser)
       ELSE Ret(V("dict", flags), Add(Add(offset, 8), length), parser)

(* "|".join(names of the bits set), bits 0..10 *)
RECURSIVE JoinFlags(_, _)
JoinFlags(d, k) ==
    IF k > 10 THEN <<>>
    ELSE LET rest == JoinFlags(d, k + 1)
         IN IF ~Bit(d, k) THEN rest
            ELSE IF rest = <<>> THEN FORMAT_FLAGS[k + 1]
            ELSE FORMAT_FLAGS[k + 1] \o <<124>> \o rest

read_format_flags(parser, chunk, blk, offset) ==
    LET length == chunk[2]
        u == UnpackFirst(length, blk, Add(offset, 8))
    IN IF ~u.ok THEN Raise(Add(offset, 8), parser)
       ELSE Ret(PyStr(JoinFlags(u.d, 0)), Add(Add(offset, 8), length), parser)

(* the while loop of read_chat_members: [ok, members, offset] *)
RECURSIVE ChatMembersLoop(_, _, _, _)
ChatMembersLoop(blk, offset, blk_length, members) ==
    IF ~(offset < blk_length) THEN [ok |-> TRUE, members |-> members, offset |-> offset]
    ELSE LET h == Slice(blk, offset, 8)
         IN IF Len(h) < 8 THEN [ok |-> FALSE, members |-> members, offset |-> offset]
            ELSE LET mnum == LE(SubSeq(h, 1, 4))
                     name_length == U32(SubSeq(h, 5, 8))
                     mname == Utf8(Slice(blk, Add(offset, 8), name_length))
                 IN IF ~mname.ok
                    THEN [ok |-> FALSE, members |-> members, offset |-> Add(offset, 8)]
                    ELSE ChatMembersLoop(blk, Add(Add(offset, 8), name_length), blk_length,
                                         Put(members, mnum, PyStr(mname.s)))

read_chat_members(parser, chunk, blk, offset) ==
    LET length == chunk[2]
        r == ChatMembersLoop(blk, Add(offset, 8), Add(Add(offset, 8), length), EmptyDict)
    IN IF ~r.ok THEN Raise(r.offset, parser)
       ELSE Ret(V("dict", r.members), r.offset, parser)

(* dispatch of the readers the dialog-state table names *)
CallBasic(reader, parser, chunk, blk, offset) ==
    CASE reader = "read_size" -> read_size(parser, chunk, blk, offset)
      [] reader = "read_message_id" -> read_message_id(parser, chunk, blk, offset)
      [] reader = "read_message_flags" -> read_message_flags(parser, chunk, blk, offset)
      [] reader = "read_time" -> read_time(parser, chunk, blk, offset)
      [] reader = "read_text" -> read_text(parser, chunk, blk, offset)
      [] reader = "read_lookup_value" -> read_lookup_value(parser, chunk, blk, offset)
      [] reader = "read_chat_members" -> read_chat_members(parser, chunk, blk, offset)
      [] reader = "read_value" -> read_value(parser, chunk, blk, offset)
      [] reader = "read_bool" -> read_bool(parser, chunk, blk, offset)
      [] reader = "read_unknown" -> read_unknown(parser, chunk, blk, offset)
      [] reader = "read_format_flags" -> read_format_flags(parser, chunk, blk, offset)

(* The loops of read_heads.  st = [ok, blk_size, head_size, count, offset, *)
(* parser].  A header read past the end of the block is struct.error; a    *)
(* store with CHAT_UID not in DIALOG_STATES is KeyError                    *)
RECURSIVE HeadLoop(_, _)

(* lines 1669-1677: the item of a head, read by r; st1 has the sizes reduced *)
HeadItem(blk, st1, h, r) ==
    IF ~r.ok THEN [st1 EXCEPT !.ok = FALSE, !.offset = r.offset]
    ELSE IF h[3] = "None"
    THEN HeadLoop(blk, [st1 EXCEPT !.offset = r.offset, !.parser = r.parser])
    ELSE IF ~Has(r.parser.DIALOG_STATES, r.parser.CHAT_UID)
    THEN [st1 EXCEPT !.ok = FALSE, !.offset = r.offset]
    ELSE HeadLoop(blk,
           [st1 EXCEPT !.offset = r.offset,
                       !.parser = [r.parser EXCEPT !.DIALOG_STATES =
                           Put(@, r.parser.CHAT_UID,
                               Put(@[r.parser.CHAT_UID],
                                   h[2] \o "_" \o ToString(st1.count), r.value))]])

(* lines 1664-1668 *)
HeadChunk(blk, st, item_chunk) ==
    IF item_chunk[1] \notin DOMAIN dialog_state_handlers
    THEN HeadLoop(blk, [st EXCEPT !.head_size = @ - (item_chunk[2] + 8),
                                  !.blk_size = @ - (item_chunk[2] + 8)])
    ELSE HeadItem(blk,
                  [st EXCEPT !.head_size = @ - (item_chunk[2] + 8),
                             !.blk_size = @ - (item_chunk[2] + 8)],
                  dialog_state_handlers[item_chunk[1]],
                  CallBasic(dialog_state_handlers[item_chunk[1]][1], st.parser,
                            item_chunk, blk, st.offset))

(* lines 1663-1677: while head_size > 0 *)
HeadLoop(blk, st) ==
    IF ~(st.head_size > 0) THEN [st EXCEPT !.ok = TRUE]
    ELSE IF Add(st.offset, 8) > Len(blk) THEN [st EXCEPT !.ok = FALSE]
    ELSE HeadChunk(blk, st, UnpackII(blk, st.offset))

RECURSIVE HeadsLoop(_, _)

(* lines 1678-1682: after the items of a head, s1 *)
HeadsNext(blk, s1) ==
    IF ~s1.ok THEN s1
    ELSE IF s1.blk_size = 0 THEN HeadsLoop(blk, [s1 EXCEPT !.count = @ + 1])
    ELSE IF Add(s1.offset, 8) > Len(blk) THEN [s1 EXCEPT !.ok = FALSE, !.count = @ + 1]
    ELSE HeadsLoop(blk, [s1 EXCEPT !.count = @ + 1,
                                   !.head_size = UnpackII(blk, s1.offset)[2],
                                   !.blk_size = @ - 8,
                                   !.offset = Add(@, 8)])

(* lines 1662-1682: while blk_size > 0 *)
HeadsLoop(blk, st) ==
    IF ~(st.blk_size > 0) THEN [st EXCEPT !.ok = TRUE]
    ELSE HeadsNext(blk, HeadLoop(blk, st))

HeadsRet(r) == IF ~r.ok THEN Raise(r.offset, r.parser) ELSE Ret(None, r.offset, r.parser)

read_heads(parser, chunk, blk, offset) ==
    IF Add(Add(offset, 8), 8) > Len(blk) THEN Raise(Add(offset, 8), parser)
    ELSE HeadsRet(HeadsLoop(blk, [ok |-> TRUE,
                                  blk_size |-> chunk[2] - 8,
                                  head_size |-> UnpackII(blk, Add(offset, 8))[2],
                                  count |-> 1,
                                  offset |-> Add(Add(offset, 8), 8),
                                  parser |-> parser]))

(* handlers[handler_id][0](self, chunk, blk, offset) *)
Call(reader, parser, chunk, blk, offset) ==
    IF reader = "read_heads" THEN read_heads(parser, chunk, blk, offset)
    ELSE CallBasic(reader, parser, chunk, blk, offset)

(* ---------------------------------------------------------------------- *)
(* State                                                                   *)
(* ---------------------------------------------------------------------- *)
VARIABLES
    self,       \* the attributes of the DesktopParser instance
    pc,         \* the position of the running decoder
    ui,         \* get_db_content: index of the (uid, files) item being decoded
    fi,         \* index of the next file of the files loop
    content,    \* the bytes of the current file not yet consumed
    blk,        \* the current block
    blk_end,    \* blk_size + 8 of the current block
    offset,     \* the cursor of the field loop
    sizes,      \* history: the blk_size of each block decoded from the current file
    opened,     \* history: a tag-1 field was decoded in the current block
    frame,      \* the frame of the running call: its arguments, locals and result
    disk        \* the file system: the entries of the directory at each path

vars == <<self, pc, ui, fi, content, blk, blk_end, offset, sizes, opened, frame, disk>>

(* DesktopParser.__init__, before the directory walk *)
NewParser ==
    [TS |-> <<>>, msg |-> None, uid |-> "", OWNER_UID |-> None, CHAT_UID |-> "",
     MESSAGE_ID |-> PyInt(<<>>), MESSAGES |-> EmptyDict, DB_FILES |-> <<>>,
     DIALOG_STATES |-> EmptyDict, INFO_CACHE |-> EmptyDict, INFO_CACHE_FILES |-> <<>>,
     PARK |-> EmptyDict, RAW_TIME |-> <<>>, VERBOSE |-> FALSE]

(* self.MESSAGES[uid]: either its own dict, or (once line 601 has run) the  *)
(* very dict object held by self.PARK[uid]                                  *)
OwnDict == [ref |-> FALSE, d |-> EmptyDict]
ParkRef == [ref |-> TRUE, d |-> EmptyDict]
MessagesOf(s, u) == IF s.MESSAGES[u].ref THEN s.PARK[u] ELSE s.MESSAGES[u].d

(* ---------------------------------------------------------------------- *)
(* DesktopParser.get_db_content                                            *)
(* ---------------------------------------------------------------------- *)
Out(ok, s, off) == [ok |-> ok, self |-> s, offset |-> off]

(* seeded fault: lines 527-529 assign the scratch text instead of          *)
(* appending it                                                            *)
db_open_record_overwrite(s0, value) ==
    LET park == s0.PARK[s0.uid]
        msg == s0.msg
        rec == IF ~Has(park, value)
               THEN [MESSAGE |-> IF msg # None THEN Put(EmptyDict, "TEXT", msg)
                                 ELSE EmptyDict,
                     UID |-> s0.uid]
               ELSE Put(park[value], "MESSAGE", Put(park[value]["MESSAGE"], "TEXT", msg))
    IN [s0 EXCEPT !.MESSAGE_ID = value,
                  !.PARK = Put(@, s0.uid, Put(park, value, rec)),
                  !.msg = None]

(* lines 498-544: tag 1 opens or reopens the record of message id `value`  *)
(* and moves the scratch text into it                                      *)
db_open_record(s0, value) ==
    LET park == s0.PARK[s0.uid]
        msg == s0.msg
        rec == IF ~Has(park, value)
               THEN [MESSAGE |-> IF msg # None THEN Put(EmptyDict, "TEXT", msg)
                                 ELSE EmptyDict,
                     UID |-> s0.uid]
               ELSE LET old == park[value]
                        m == old["MESSAGE"]
                    IN IF Has(m, "TEXT") /\ m["TEXT"] = msg THEN old
                       ELSE IF Has(m, "TEXT") /\ m["TEXT"] # None
                       THEN Put(old, "MESSAGE",
                                Put(m, "TEXT",
                                    PyStr(m["TEXT"].v \o <<10>>
                                          \o (IF msg = None THEN S_None ELSE msg.v))))
                       ELSE IF ~Has(m, "TEXT")
                       THEN Put(old, "MESSAGE", Put(m, "TEXT", msg))
                       ELSE old
        rec2 == IF msg = PyStr(S_deleted)
                THEN Put(rec, "MESSAGE", Put(rec["MESSAGE"], "DELETED", PyBool(TRUE)))
                ELSE rec
    IN [s0 EXCEPT !.MESSAGE_ID = value,
                  !.PARK = Put(@, s0.uid, Put(park, value, rec2)),
                  !.msg = None]

(* lines 555-597: the routed assignment of a decoded value.  KeyError when *)
(* self.MESSAGE_ID is no key of PARK[uid]; KeyError or TypeError from the  *)
(* TEXT and TIME look-ups of a zero tag-3 time                             *)
db_route(s, handler_id, key0, dest, value0, off) ==
    IF ~Has(s.PARK[s.uid], s.MESSAGE_ID) THEN Out(FALSE, s, off)
    ELSE LET rec0 == s.PARK[s.uid][s.MESSAGE_ID]
             rec1 == IF dest = "VOIP" /\ ~Has(rec0, "VOIP")
                     THEN Put(rec0, "VOIP", EmptyDict) ELSE rec0
             d == rec1[dest]
             key == IF handler_id = 13 THEN key0 \o s.uid ELSE key0
             v13 == IF handler_id = 13 /\ value0 = None /\ Has(d, key) /\ d[key] # None
                    THEN d[key] ELSE value0
             d2 == IF handler_id = 2
                   THEN Put(d, "DIRECTION",
                            PyStr(DIRECTION(value0.v["OUTGOING"] = PyBool(TRUE))))
                   ELSE d
             zero3 == handler_id = 3 /\ s.RAW_TIME = <<>>
             d3 == IF handler_id = 3 /\ s.RAW_TIME # <<>>
                   THEN Put(d2, "TIME_RAW", PyInt(s.RAW_TIME)) ELSE d2
             deleted == zero3 /\ Has(d, "TEXT") /\ d["TEXT"] # None
                        /\ IsSubstr(S_deleted, d["TEXT"].v)
             err3 == zero3 /\ (\/ ~Has(d, "TEXT")
                               \/ d["TEXT"] = None
                               \/ (deleted /\ ~Has(d, "TIME")))
             v3 == IF deleted /\ Has(d, "TIME") /\ d["TIME"] # None /\ v13 = None
                   THEN d["TIME"] ELSE v13
             rec2 == Put(rec1, dest, Put(d3, key, v3))
         IN IF err3 THEN Out(FALSE, s, off)
            ELSE Out(TRUE,
                     [s EXCEPT !.PARK = Put(@, s.uid, Put(@[s.uid], s.MESSAGE_ID, rec2)),
                               !.RAW_TIME = <<>>],
                     off)

(* lines 498-597, after the reader returned r; h is the row of the tag.  *)
(* The row of tag 123 has no destination: handlers[123][2] is IndexError   *)
db_handle(handler_id, h, r) ==
    IF ~r.ok THEN Out(FALSE, r.parser, r.offset)
    ELSE IF Len(h) < 3
    THEN Out(FALSE, IF handler_id = 1 THEN db_open_record(r.parser, r.value)
                    ELSE r.parser, r.offset)
    ELSE IF h[3] = "None"
    THEN Out(TRUE, IF handler_id = 1 THEN db_open_record(r.parser, r.value)
                   ELSE r.parser, r.offset)
    ELSE IF ~r.parser.VERBOSE /\ r.value = PyStr(<<>>)
    THEN Out(TRUE, IF handler_id = 1 THEN db_open_record(r.parser, r.value)
                   ELSE r.parser, r.offset)
    ELSE db_route(IF handler_id = 1 THEN db_open_record(r.parser, r.value)
                  ELSE r.parser,
                  handler_id, h[2], h[3], r.value, r.offset)

(* lines 494-597: a field whose tag is in the table *)
db_known(s, chunk, b, off) ==
    db_handle(chunk[1], handlers[chunk[1]],
              Call(handlers[chunk[1]][1], s, chunk, b, off))

(* seeded fault: line 599 as offset += 8 *)
db_skip8(chunk, off) == Add(off, 8)

(* lines 598-599: a field whose tag is not in the table *)
db_skip(chunk, off) == Add(off, Add(8, chunk[2]))

(* lines 491-599: one iteration of the field loop *)
db_dispatch(s, chunk, b, off) ==
    IF chunk[1] \in DOMAIN handlers THEN db_known(s, chunk, b, off)
    ELSE Out(TRUE, s, db_skip(chunk, off))

(* seeded fault: lines 482-483 missing, the two sizes are not compared *)
db_header_nochk(c) ==
    IF Add(Add(U32(SubSeq(c, 1, 4)), 8), 8) > Len(c)
    THEN [ok |-> FALSE, size |-> U32(SubSeq(c, 1, 4)),
          end |-> Add(U32(SubSeq(c, 1, 4)), 8), blk |-> <<>>]
    ELSE [ok |-> TRUE, size |-> U32(SubSeq(c, 1, 4)),
          end |-> Add(U32(SubSeq(c, 1, 4)), 8),
          blk |-> SubSeq(c, 9, Add(U32(SubSeq(c, 1, 4)), 8))]

(* seeded fault: line 487 as blk_end + 4 > len(content) *)
db_header_tail4(c) ==
    IF LE(SubSeq(c, 1, 4)) # LE(SubSeq(c, 5, 8))
       \/ Add(Add(U32(SubSeq(c, 1, 4)), 8), 4) > Len(c)
    THEN [ok |-> FALSE, size |-> U32(SubSeq(c, 1, 4)),
          end |-> Add(U32(SubSeq(c, 1, 4)), 8), blk |-> <<>>]
    ELSE [ok |-> TRUE, size |-> U32(SubSeq(c, 1, 4)),
          end |-> Add(U32(SubSeq(c, 1, 4)), 8),
          blk |-> SubSeq(c, 9, Add(U32(SubSeq(c, 1, 4)), 8))]

(* lines 481-489: the header of the next block of `c` (len(c) >= 16):      *)
(* [ok, size, end, blk]; not ok when the loop breaks                       *)
db_header(c) ==
    LET blk_size == U32(SubSeq(c, 1, 4))
        mismatch == LE(SubSeq(c, 1, 4)) # LE(SubSeq(c, 5, 8))
        e == Add(blk_size, 8)
    IN IF mismatch \/ Add(e, 8) > Len(c)
       THEN [ok |-> FALSE, size |-> blk_size, end |-> e, blk |-> <<>>]
       ELSE [ok |-> TRUE, size |-> blk_size, end |-> e, blk |-> SubSeq(c, 9, e)]

(* seeded fault: line 600 as content[blk_end + 4:] *)
db_advance4(c, e) == Drop(c, Add(e, 4))

(* line 600 *)
db_advance(c, e) == Drop(c, Add(e, 8))

(* lines 470-474: the next item of DB_FILES, or the return of line 602 *)
db_next_uid ==
    /\ pc = "db_uid"
    /\ IF ui > Len(self.DB_FILES)
       THEN /\ pc' = "return"
            /\ UNCHANGED <<self, fi>>
       ELSE LET uid == self.DB_FILES[ui][1]
            IN /\ self' = IF Has(self.MESSAGES, uid)
                          THEN [self EXCEPT !.uid = uid]
                          ELSE [self EXCEPT !.uid = uid,
                                            !.MESSAGES = Put(@, uid, OwnDict),
                                            !.PARK = Put(@, uid, EmptyDict)]
               /\ fi' = 1
               /\ pc' = "db_file"
    /\ UNCHANGED <<ui, content, blk, blk_end, offset, sizes, opened, frame, disk>>

(* lines 475-479: the next file is read; an empty file returns None *)
db_open_file ==
    /\ pc = "db_file"
    /\ LET files == self.DB_FILES[ui][2]
       IN IF fi > Len(files)
          THEN /\ ui' = ui + 1
               /\ pc' = "db_uid"
               /\ UNCHANGED <<fi, content, sizes>>
          ELSE /\ content' = files[fi]
               /\ fi' = fi + 1
               /\ sizes' = <<>>
               /\ pc' = IF Len(files[fi]) = 0 THEN "return" ELSE "db_block"
               /\ UNCHANGED ui
    /\ UNCHANGED <<self, blk, blk_end, offset, opened, frame, disk>>

(* lines 480-489: the head of the block loop *)
db_block ==
    /\ pc = "db_block"
    /\ IF Len(content) < 16
       THEN /\ pc' = "db_file"
            /\ UNCHANGED <<self, blk, blk_end, offset, opened>>
       ELSE LET h == db_header(content)
                differ == LE(SubSeq(content, 1, 4)) # LE(SubSeq(content, 5, 8))
            IN /\ pc' = IF h.ok THEN "db_field" ELSE "db_file"
               /\ self' = IF differ THEN self ELSE [self EXCEPT !.msg = None]
               /\ offset' = IF differ THEN offset ELSE 0
               /\ blk_end' = IF differ THEN blk_end ELSE h.end
               /\ blk' = IF h.ok THEN h.blk ELSE blk
               /\ opened' = IF h.ok THEN FALSE ELSE opened
    /\ UNCHANGED <<ui, fi, content, sizes, frame, disk>>

(* the iteration ends: back to the loop head, or the exception leaves   *)
(* get_db_content                                                       *)
db_field_done(r) ==
    /\ self' = r.self
    /\ offset' = r.offset
    /\ pc' = IF r.ok THEN "db_field" ELSE "raise"

(* lines 490-599: one field *)
db_field ==
    /\ pc = "db_field"
    /\ Add(offset, 8) <= Len(blk)
    /\ db_field_done(db_dispatch(self, UnpackII(blk, offset), blk, offset))
    /\ opened' = (opened \/ (/\ UnpackII(blk, offset)[1] = 1
                              /\ read_message_id(self, UnpackII(blk, offset),
                                                 blk, offset).ok))
    /\ UNCHANGED <<ui, fi, content, blk, blk_end, sizes, frame, disk>>

(* lines 600-601: the end of the field loop *)
db_end_block ==
    /\ pc = "db_field"
    /\ ~(Add(offset, 8) <= Len(blk))
    /\ content' = db_advance(content, blk_end)
    /\ self' = [self EXCEPT !.MESSAGES = Put(@, self.uid, ParkRef)]
    /\ sizes' = Append(sizes, blk_end - 8)
    /\ pc' = "db_block"
    /\ UNCHANGED <<ui, fi, blk, blk_end, offset, opened, frame, disk>>

(* ---------------------------------------------------------------------- *)
(* DesktopParser.get_info_cache.  An entry of INFO_CACHE_FILES is          *)
(* [kind, json, bytes]: kind is the answer of magic.from_file ("text" for  *)
(* ASCII, UTF-8 or JSON, "data" for anything else, "error" when it raises  *)
(* ValueError), json the value json.load returns, bytes the file content   *)
(* ---------------------------------------------------------------------- *)

(* lines 615-629: the INFO_CACHE key and the json key of each assignment *)
JSON_KEYS ==
    << <<"NICKNAME", "nick">>, <<"AIMID", "aimId">>, <<"FRIENDLY_NAME", "friendly">>,
       <<"STATE", "state">>, <<"USER_TYPE", "userType">>,
       <<"ATTACHED_PHONE_NUMBER", "attachedPhoneNumber">>,
       <<"GLOBAL_FLAGS", "globalFlags">>, <<"HAS_MAIL", "hasMail">>,
       <<"ACCOUNT_IS_OFFICIAL", "official">> >>

(* line 616: OWNER_UID, AIMID and UID take the value of aimId *)
ic_assign(s, key, value) ==
    IF key = "AIMID"
    THEN [s EXCEPT !.OWNER_UID = value,
                   !.INFO_CACHE = Put(Put(@, "AIMID", value), "UID", value)]
    ELSE [s EXCEPT !.INFO_CACHE = Put(@, key, value)]

(* lines 613-629 from assignment i on: KeyError at the first missing key *)
RECURSIVE ic_json(_, _, _)
ic_json(s, json_data, i) ==
    IF i > Len(JSON_KEYS) THEN [ok |-> TRUE, self |-> s]
    ELSE IF ~Has(json_data, "info") \/ ~Has(json_data["info"], JSON_KEYS[i][2])
    THEN [ok |-> FALSE, self |-> s]
    ELSE ic_json(ic_assign(s, JSON_KEYS[i][1], json_data["info"][JSON_KEYS[i][2]]),
                 json_data, i + 1)

(* line 651: self.INFO_CACHE["AIMID"] if not None else None; `not None` is *)
(* True, so the look-up is always made: KeyError when AIMID was not stored *)
ic_owner(s) ==
    IF Has(s.INFO_CACHE, "AIMID")
    THEN [ok |-> TRUE, self |-> [s EXCEPT !.OWNER_UID = s.INFO_CACHE["AIMID"]]]
    ELSE [ok |-> FALSE, self |-> s]

(* lines 647, after the reader of row h returned r *)
ic_store(h, r) ==
    IF ~r.ok THEN Out(FALSE, r.parser, r.offset)
    ELSE Out(TRUE, [r.parser EXCEPT !.INFO_CACHE = Put(@, h[2], r.value)], r.offset)

(* lines 642-647: a field whose tag is in my_info_handlers *)
ic_known(s, chunk, b, off) ==
    ic_store(my_info_handlers[chunk[1]],
             CallBasic(my_info_handlers[chunk[1]][1], s, chunk, b, off))

(* lines 648-649: a field whose tag is not in my_info_handlers *)
ic_skip(chunk, off) == Add(off, 8)

(* lines 640-649: one iteration of the field loop *)
ic_dispatch(s, chunk, b, off) ==
    IF chunk[1] \in DOMAIN my_info_handlers THEN ic_known(s, chunk, b, off)
    ELSE Out(TRUE, s, ic_skip(chunk, off))

(* the json branch ends with line 651 *)
ic_json_done(r) ==
    /\ self' = IF r.ok THEN ic_owner(r.self).self ELSE r.self
    /\ pc' = IF r.ok /\ ic_owner(r.self).ok THEN "ic_file" ELSE "raise"
    /\ UNCHANGED <<content, blk, blk_end, offset>>

(* lines 631-638: the header of a binary file.  A file shorter than 8     *)
(* bytes is struct.error; size != check returns None                      *)
ic_binary(bytes) ==
    /\ content' = bytes
    /\ self' = self
    /\ IF Len(bytes) < 8
       THEN pc' = "raise" /\ UNCHANGED <<blk, blk_end, offset>>
       ELSE IF LE(SubSeq(bytes, 1, 4)) # LE(SubSeq(bytes, 5, 8))
       THEN pc' = "return" /\ UNCHANGED <<blk, blk_end, offset>>
       ELSE /\ offset' = 8
            /\ blk_end' = Add(U32(SubSeq(bytes, 1, 4)), 8)
            /\ blk' = Slice(bytes, 0, Add(U32(SubSeq(bytes, 1, 4)), 8))
            /\ pc' = "ic_field"

(* lines 605-638: the next file, up to the head of its field loop *)
ic_open_file ==
    /\ pc = "ic_file"
    /\ IF fi > Len(self.INFO_CACHE_FILES)
       THEN /\ pc' = "return"
            /\ UNCHANGED <<self, fi, content, blk, blk_end, offset>>
       ELSE /\ fi' = fi + 1
            /\ CASE self.INFO_CACHE_FILES[fi].kind = "error" ->
                     /\ pc' = "return"
                     /\ UNCHANGED <<self, content, blk, blk_end, offset>>
                 [] self.INFO_CACHE_FILES[fi].kind = "text" ->
                     ic_json_done(ic_json(self, self.INFO_CACHE_FILES[fi].json, 1))
                 [] self.INFO_CACHE_FILES[fi].kind = "data" ->
                     ic_binary(self.INFO_CACHE_FILES[fi].bytes)
    /\ UNCHANGED <<ui, sizes, opened, frame, disk>>

(* the iteration ends: back to the loop head, or the exception leaves   *)
(* get_info_cache                                                       *)
ic_field_done(r) ==
    /\ self' = r.self
    /\ offset' = r.offset
    /\ pc' = IF r.ok THEN "ic_field" ELSE "raise"

(* lines 639-649: one field; a header read past the end of blk is       *)
(* struct.error                                                         *)
ic_field ==
    /\ pc = "ic_field"
    /\ Add(offset, 8) <= blk_end
    /\ IF Add(offset, 8) > Len(blk)
       THEN pc' = "raise" /\ UNCHANGED <<self, offset>>
       ELSE ic_field_done(ic_dispatch(self, UnpackII(blk, offset), blk, offset))
    /\ UNCHANGED <<ui, fi, content, blk, blk_end, sizes, opened, frame, disk>>

(* the end of the field loop ends with line 651 *)
ic_end_done(r) ==
    /\ self' = r.self
    /\ pc' = IF r.ok THEN "ic_file" ELSE "raise"

(* lines 650-651: the end of the field loop *)
ic_end_file ==
    /\ pc = "ic_field"
    /\ ~(Add(offset, 8) <= blk_end)
    /\ content' = Drop(content, blk_end)
    /\ ic_end_done(ic_owner(self))
    /\ UNCHANGED <<ui, fi, blk, blk_end, offset, sizes, opened, frame, disk>>

(* ---------------------------------------------------------------------- *)
(* Helpers that return or raise: exc is "" or the name of the exception    *)
(* ---------------------------------------------------------------------- *)
Returns(v) == [exc |-> "", value |-> v]
Raises(e) == [exc |-> e, value |-> None]

(* s.index(ch), 0-based; -1 stands for the ValueError of a missing item *)
Index(s, ch) ==
    IF \E i \in 1..Len(s) : s[i] = ch
    THEN (CHOOSE i \in 1..Len(s) : s[i] = ch /\ \A j \in 1..(i - 1) : s[j] # ch) - 1
    ELSE -1

(* s.split(sep) *)
RECURSIVE SplitFrom(_, _, _)
SplitFrom(s, sep, cur) ==
    IF s = <<>> THEN <<cur>>
    ELSE IF IsPrefix(sep, s) THEN <<cur>> \o SplitFrom(Drop(s, Len(sep)), sep, <<>>)
    ELSE SplitFrom(Tail(s), sep, Append(cur, Head(s)))
split(s, sep) == SplitFrom(s, sep, <<>>)

(* s.lower(), for ASCII *)
lower(s) == [i \in 1..Len(s) |-> IF s[i] >= 65 /\ s[i] <= 90 THEN s[i] + 32 ELSE s[i]]

(* str(n) of a small natural *)
RECURSIVE DecDigits(_)
DecDigits(n) == IF n = 0 THEN <<>> ELSE Append(DecDigits(n \div 10), Dig(n % 10))
str_int(n) == IF n = 0 THEN <<48>> ELSE DecDigits(n)

(* hex(n) of a small natural *)
HexDig(n) == IF n < 10 THEN 48 + n ELSE 87 + n
RECURSIVE HexDigits(_)
HexDigits(n) == IF n = 0 THEN <<>> ELSE Append(HexDigits(n \div 16), HexDig(n % 16))
hex(n) == <<48, 120>> \o (IF n = 0 THEN <<48>> ELSE HexDigits(n))

(* ---------------------------------------------------------------------- *)
(* Arithmetic of Python ints, on little-endian base-256 digits             *)
(* ---------------------------------------------------------------------- *)

(* d * m + c *)
RECURSIVE MulAdd(_, _, _)
MulAdd(d, m, c) ==
    IF d = <<>> THEN Digits(c)
    ELSE <<(d[1] * m + c) % 256>> \o MulAdd(Tail(d), m, (d[1] * m + c) \div 256)

(* divmod(d, b): the quotient's digits and the remainder *)
RECURSIVE DivModRaw(_, _)
DivModStep(lo, hi, b) ==
    [q |-> <<(hi.r * 256 + lo) \div b>> \o hi.q, r |-> (hi.r * 256 + lo) % b]
DivModRaw(d, b) ==
    IF d = <<>> THEN [q |-> <<>>, r |-> 0]
    ELSE DivModStep(d[1], DivModRaw(Tail(d), b), b)
DivModNorm(qr) == [q |-> Norm(qr.q), r |-> qr.r]
divmod(d, b) == DivModNorm(DivModRaw(d, b))

(* ---------------------------------------------------------------------- *)
(* class Base62                                                            *)
(* ---------------------------------------------------------------------- *)

(* "0123456789" "abcdefghijklmnopqrstuvwxyz" "ABCDEFGHIJKLMNOPQRSTUVWXYZ" *)
CHARSET == [i \in 1..62 |-> IF i <= 10 THEN 47 + i
                            ELSE IF i <= 36 THEN 86 + i
                            ELSE 28 + i]
BASE == Len(CHARSET)

(* the loop of encode; the list is appended to, least significant first *)
RECURSIVE EncodeLoop(_, _)
EncodeStep(dm, encoded) == EncodeLoop(dm.q, Append(encoded, CHARSET[dm.r + 1]))
EncodeLoop(num, encoded) ==
    IF num = <<>> THEN encoded ELSE EncodeStep(divmod(num, BASE), encoded)

(* encode without the final reversed() *)
Base62_encode_noreverse(num) ==
    IF num = <<>> THEN <<CHARSET[1]>> ELSE EncodeLoop(num, <<>>)

(* Base62.encode(num): num as digits, the result as code points *)
Base62_encode(num) ==
    IF num = <<>> THEN <<CHARSET[1]>> ELSE Reverse(EncodeLoop(num, <<>>))

(* Base62.decode(s): CHARSET.index raises ValueError *)
RECURSIVE DecodeLoop(_, _)
DecodeLoop(s, num) ==
    IF s = <<>> THEN Returns(PyInt(num))
    ELSE IF Index(CHARSET, s[1]) < 0 THEN Raises("ValueError")
    ELSE DecodeLoop(Tail(s), MulAdd(num, BASE, Index(CHARSET, s[1])))
Base62_decode(s) == DecodeLoop(s, <<>>)

(* ---------------------------------------------------------------------- *)
(* class FileSharingContentType, class FileSharingUriParser                *)
(* ---------------------------------------------------------------------- *)
S_audio == <<97, 117, 100, 105, 111>>
S_image == <<105, 109, 97, 103, 101>>
S_video == <<118, 105, 100, 101, 111>>
S_dash == <<45>>
S_pts == <<112, 116, 115>>
S_lottie_sticker == <<108, 111, 116, 116, 105, 101, 45, 115, 116, 105, 99, 107, 101, 114>>
S_pdf == <<112, 100, 102>>
S_unknown == <<117, 110, 107, 110, 111, 119, 110>>
S_REGULAR == <<82, 69, 71, 85, 76, 65, 82>>
S_SNAP == <<83, 78, 65, 80>>
S_PTS == <<80, 84, 83>>
S_PTS_B == <<80, 84, 83, 95, 66>>
S_UNKNOWN == <<85, 78, 75, 78, 79, 87, 78>>
S_STICKER == <<83, 84, 73, 67, 75, 69, 82>>
S_PTT == <<80, 84, 84>>
S_GIF_ANIMATED == <<71, 73, 70, 45, 65, 78, 73, 77, 65, 84, 69, 68>>
S_GIF_ANIMATED_STICKER == S_GIF_ANIMATED \o <<45>> \o S_STICKER

is_audio(type_) == split(type_, S_dash)[1] = S_audio
is_lottie(type_) == type_ = S_lottie_sticker
is_video(type_) == split(type_, S_dash)[1] = S_video
is_image(type_) == split(type_, S_dash)[1] = S_image

(* the tables of extract_content_type, keyed by the code point *)
VIDEO == (56 :> S_REGULAR) @@ (57 :> S_SNAP) @@ (65 :> S_PTS) @@ (66 :> S_PTS_B)
         @@ (67 :> S_UNKNOWN) @@ (68 :> S_STICKER) @@ (69 :> S_UNKNOWN)
         @@ (70 :> S_UNKNOWN)
AUDIO == (71 :> S_REGULAR) @@ (72 :> S_SNAP) @@ (73 :> S_PTT) @@ (74 :> S_PTT)
         @@ (75 :> S_UNKNOWN) @@ (77 :> S_UNKNOWN) @@ (78 :> S_UNKNOWN)
IMAGE == (48 :> S_REGULAR) @@ (49 :> S_SNAP) @@ (50 :> S_STICKER) @@ (51 :> S_UNKNOWN)
         @@ (52 :> S_GIF_ANIMATED) @@ (53 :> S_GIF_ANIMATED_STICKER)
         @@ (54 :> S_UNKNOWN) @@ (55 :> S_UNKNOWN)

(* extract_content_type: c is self.file_type, a str of one character; the *)
(* tests of lines 157-163 are substring tests against "GHIJKMN",           *)
(* "01234567" and "89ABCEF"                                                *)
extract_content_type(c) ==
    IF IsSubstr(c, <<71, 72, 73, 74, 75, 77, 78>>)
    THEN S_audio \o S_dash \o lower(AUDIO[c[1]])
    ELSE IF IsSubstr(c, <<48, 49, 50, 51, 52, 53, 54, 55>>)
    THEN S_image \o S_dash \o lower(IMAGE[c[1]])
    ELSE IF IsSubstr(c, <<56, 57, 65, 66, 67, 69, 70>>)
    THEN S_video \o S_dash \o lower(VIDEO[c[1]])
    ELSE IF c = <<76>> THEN S_lottie_sticker
    ELSE IF c = <<83>> THEN S_pdf
    ELSE S_unknown

(* FileSharingUriParser.__init__ *)
UriInit(file_id) ==
    IF Len(file_id) < 30 THEN Raises("ValueError")
    ELSE Returns([file_id |-> file_id,
                  file_type |-> Slice(file_id, 0, 1),
                  type |-> extract_content_type(Slice(file_id, 0, 1)),
                  unique_value_one |-> Slice(file_id, 5, 17),
                  timestamp |-> Slice(file_id, 22, 8),
                  unique_value_two |-> Drop(file_id, 30)])
FileSharingUriParser(file_id) ==
    IF Slice(file_id, 0, 4) \in {S_hxxp, S_http}
    THEN UriInit(split(file_id, <<47>>)[Len(split(file_id, <<47>>))])
    ELSE UriInit(file_id)

(* str(Base62.decode(part)) *)
StrOf(r) == IF r.exc # "" THEN r ELSE Returns(PyStr(str_int(ToNat(r.value.v))))

decode_audio_duration(o) ==
    IF Len(o.file_id) < 5 THEN Returns(None)
    ELSE StrOf(Base62_decode(Slice(o.file_id, 1, 4)))

decode_video_duration(o) ==
    IF Len(o.file_id) < 5 THEN Returns(None)
    ELSE StrOf(Base62_decode(Slice(o.file_id, 5, 4)))

(* the tuple (width, height) as a pair of small naturals *)
SizeOf(w, h) ==
    IF w.exc # "" THEN w
    ELSE IF h.exc # "" THEN h
    ELSE Returns(<<ToNat(w.value.v), ToNat(h.value.v)>>)
decode_size(o) ==
    IF Len(o.file_id) < 5 THEN Returns(None)
    ELSE SizeOf(Base62_decode(Slice(o.file_id, 1, 2)), Base62_decode(Slice(o.file_id, 3, 2)))

hexdigits == <<48, 49, 50, 51, 52, 53, 54, 55, 56, 57,
               97, 98, 99, 100, 101, 102, 65, 66, 67, 68, 69, 70>>
HexVal(c) == IF c <= 57 THEN c - 48 ELSE IF c >= 97 THEN c - 87 ELSE c - 55

(* int(dt_val, 16) of 8 hexadecimal digits, as digits *)
IntHex8(s) == BE([i \in 1..4 |-> 16 * HexVal(s[2 * i - 1]) + HexVal(s[2 * i])])

decode_timestamp(o) ==
    IF Len(o.timestamp) # 8 \/ \E i \in 1..Len(o.timestamp) : Index(hexdigits, o.timestamp[i]) < 0
    THEN None
    ELSE PyStr(strftime(IntHex8(o.timestamp)))

(* hex(Base62.decode(color_bits)) *)
HexOf(r) == IF r.exc # "" THEN r ELSE Returns(PyStr(hex(ToNat(r.value.v))))

(* decode_color: color_bits is bound by neither branch for the other types *)
decode_color(o) ==
    IF Len(o.file_id) < 5 THEN Returns(None)
    ELSE IF (is_video(o.type) /\ ~IsSubstr(S_pts, o.type)) \/ is_image(o.type)
    THEN HexOf(Base62_decode(Slice(o.file_id, 5, 3)))
    ELSE IF is_video(o.type) /\ IsSubstr(S_pts, o.type)
    THEN HexOf(Base62_decode(Slice(o.file_id, 9, 3)))
    ELSE Raises("UnboundLocalError")

(* ---------------------------------------------------------------------- *)
(* parse_file_id, check_partial_match                                      *)
(* ---------------------------------------------------------------------- *)
S_times == <<32, 42, 32>>
S_color == <<44, 32, 99, 111, 108, 111, 114, 58, 32>>
S_duration == <<44, 32, 100, 117, 114, 97, 116, 105, 111, 110, 58, 32>>

(* lines 1541-1547: f"{w} * {h}, color: {color}" and the duration of a video *)
MetaVideo(meta, duration) ==
    IF duration.exc # "" THEN duration
    ELSE Returns(PyStr(meta \o S_duration \o duration.value.v))
MetaText(size, color) ==
    str_int(size.value[1]) \o S_times \o str_int(size.value[2]) \o S_color \o color.value.v
MetaSized(o, size, color) ==
    IF size.exc # "" THEN size
    ELSE IF color.exc # "" THEN color
    ELSE IF is_video(o.type) THEN MetaVideo(MetaText(size, color), decode_video_duration(o))
    ELSE Returns(PyStr(MetaText(size, color)))
ParseMeta(o) ==
    IF is_audio(o.type) THEN decode_audio_duration(o)
    ELSE IF is_image(o.type) \/ is_video(o.type)
    THEN MetaSized(o, decode_size(o), decode_color(o))
    ELSE Returns(None)
ParseDone(o, meta) ==
    IF meta.exc # "" THEN meta
    ELSE Returns(<<PyStr(o.type), decode_timestamp(o), meta.value>>)
ParseObject(file_content) ==
    IF file_content.exc # "" THEN file_content
    ELSE ParseDone(file_content.value, ParseMeta(file_content.value))

(* parse_file_id(uri): [ftype.type_, timestamp, meta], or the exception of *)
(* FileSharingUriParser and Base62.decode, which it does not catch         *)
parse_file_id(uri) ==
    IF Len(uri) < 30 THEN Returns(<<None, None, None>>)
    ELSE ParseObject(FileSharingUriParser(uri))

(* the loop of check_partial_match: the number of leading equal characters *)
RECURSIVE MatchLoop(_, _, _, _)
MatchLoop(value, filename, i, max_compare) ==
    IF i >= max_compare THEN i
    ELSE IF value[i + 1] = filename[i + 1]
    THEN MatchLoop(value, filename, i + 1, max_compare)
    ELSE i

(* check_partial_match with > for >= *)
check_partial_match_strict(value, filename) ==
    MatchLoop(value, filename, 0,
              IF Len(value) < Len(filename) THEN Len(value) ELSE Len(filename))
        > (Len(filename) \div 2)

(* check_partial_match(value, filename), threshold 0.5:                    *)
(* int(len(filename) * 0.5) is len(filename) // 2                          *)
check_partial_match(value, filename) ==
    MatchLoop(value, filename, 0,
              IF Len(value) < Len(filename) THEN Len(value) ELSE Len(filename))
        >= (Len(filename) \div 2)

(* ---------------------------------------------------------------------- *)
(* Input files: the bytes the block format of the decoders is read from    *)
(* ---------------------------------------------------------------------- *)
MaxFields == 4
MaxFramed == 3
MaxSmall == 2
MaxTiny == 1

U32Bytes(n) == <<n % 256, (n \div 256) % 256, (n \div 65536) % 256, n \div 16777216>>

(* field := tag:u32-LE length:u32-LE value[length] *)
Field(tag, payload) == U32Bytes(tag) \o U32Bytes(Len(payload)) \o payload
(* a field that declares `length` bytes and carries `payload` *)
FieldL(tag, length, payload) == U32Bytes(tag) \o U32Bytes(length) \o payload

RECURSIVE Concat(_)
Concat(ss) == IF ss = <<>> THEN <<>> ELSE Head(ss) \o Concat(Tail(ss))

(* a block as the decoders expect it: size, size, payload, 8 more bytes *)
Block(fields) ==
    LET p == Concat(fields)
    IN U32Bytes(Len(p)) \o U32Bytes(Len(p)) \o p \o U32Bytes(Len(p)) \o U32Bytes(Len(p))

(* a block followed by 4 bytes only *)
Block4(fields) ==
    LET p == Concat(fields)
    IN U32Bytes(Len(p)) \o U32Bytes(Len(p)) \o p \o U32Bytes(Len(p))

Corrupt == <<255, 255, 255, 255, 0, 0, 0, 0, 0, 0, 0, 0, 0, 0, 0, 0>>

(* a block whose size-check is size + 1 *)
Mismatch(fields) ==
    LET p == Concat(fields)
    IN U32Bytes(Len(p)) \o U32Bytes(Len(p) + 1) \o p \o U32Bytes(Len(p)) \o U32Bytes(Len(p))

Id1 == <<1, 0, 0, 0, 0, 0, 0, 0>>
Id2 == <<2, 0, 0, 0, 0, 0, 0, 0>>
T_a == <<97>>
T_b == <<98>>
T_w == <<119>>
T_hello == <<104, 101, 108, 108, 111>>
Time1 == <<0, 16, 32, 96>>

F_id1 == Field(1, Id1)
F_id2 == Field(1, Id2)
F_idNull == Field(1, UINT64_MAX)
F_a == Field(5, T_a)
F_b == Field(5, T_b)
F_hello == Field(5, T_hello)
F_time == Field(3, Time1)
F_wid == Field(4, T_w)
F_voip == Field(27, <<3, 0, 0, 0>>)
F_voip7 == Field(27, <<7, 0, 0, 0>>)
F_len3 == Field(30, <<1, 2, 3>>)
F_badutf == Field(5, <<255>>)
F_trunc == FieldL(3, 4, <<0, 16>>)
F_unk == Field(4096, <<1, 2, 3, 4, 5, 6, 7>>)

ThemeText == {F_id1, F_a, F_b, F_hello, F_time}
ThemeNull == {F_idNull, F_id1, F_a, F_wid, F_time}
ThemeErr == {F_id1, F_len3, F_voip7, F_badutf, F_trunc}
ThemeSkip == {F_id1, F_unk, F_wid, F_a, F_voip}
SmallPool == {F_id1, F_id2, F_a, F_wid, F_len3}

(* the sequences of at most n fields of a pool *)
Seqs(pool, n) == UNION {[1..k -> pool] : k \in 0..n}

BigBlocks == Seqs(ThemeText, MaxFields) \cup Seqs(ThemeNull, MaxFields)
             \cup Seqs(ThemeErr, MaxFields) \cup Seqs(ThemeSkip, MaxFields)

(* the field lists of the blocks that are also given other framings *)
FramedBlocks == Seqs(ThemeText, MaxFramed) \cup Seqs(ThemeNull, MaxFramed)
                \cup Seqs(ThemeErr, MaxFramed) \cup Seqs(ThemeSkip, MaxFramed)

(* one uid, one file, one block: well framed, with a 4-byte tail, or       *)
(* followed by a header whose two sizes differ                             *)
OneBlockInputs ==
    {<< <<"u1", <<Block(fs)>>>> >> : fs \in BigBlocks}
    \cup {<< <<"u1", <<f>>>> >> :
            f \in UNION {{Block4(fs), Block(fs) \o Corrupt,
                          Block(fs) \o Mismatch(<<F_a, F_id2>>)} : fs \in FramedBlocks}}

(* two blocks in one file, in two files of one uid, in the files of two    *)
(* uids; a file may also be empty                                          *)
TwoBlockInputs ==
    UNION {
        LET b1 == Block(p[1])
            b2 == Block(p[2])
        IN { << <<"u1", <<b1 \o b2>>>> >>,
             << <<"u1", <<b1, b2>>>> >>,
             << <<"u1", <<b1>>>>, <<"u2", <<b2>>>> >> }
        : p \in Seqs(SmallPool, MaxSmall) \X Seqs(SmallPool, MaxTiny)}

EmptyFileInputs ==
    UNION {
        LET b == Block(fs)
        IN { << <<"u1", << <<>>, b>>>> >>,
             << <<"u1", << <<>> >>>>, <<"u2", <<b>>>> >> }
        : fs \in Seqs(SmallPool, MaxTiny)}

(* two files of one uid, one block each, in both orders of the directory *)
(* walk                                                                   *)
OrderPool == {F_a, F_b, F_id1}
TwoFileInputs ==
    {<< <<"u1", <<Block(p[1]), Block(p[2])>>>> >> :
        p \in Seqs(OrderPool, MaxSmall) \X Seqs(OrderPool, MaxSmall)}

(* one block [tag 1 (id 1), tag 2 (flags)]: the low byte of the flags takes *)
(* every value, the second byte has bits 8 and 9 and others, the high      *)
(* bytes are all clear or all set                                          *)
FlagValues == {<<a, b, c, c>> : a \in 0..255, b \in {0, 1, 2, 3, 254}, c \in {0, 255}}
FlagInputs == {<< <<"u1", <<Block(<<F_id1, Field(2, v)>>)>>>> >> : v \in FlagValues}

DbInputs == OneBlockInputs \cup TwoBlockInputs \cup EmptyFileInputs \cup TwoFileInputs
            \cup FlagInputs

(* the state after construction: DB_FILES found by the directory walk *)
Init ==
    /\ self \in {[NewParser EXCEPT !.DB_FILES = i] : i \in DbInputs}
    /\ pc = "db_uid"
    /\ ui = 1
    /\ fi = 1
    /\ content = <<>>
    /\ blk = <<>>
    /\ blk_end = 0
    /\ offset = 0
    /\ sizes = <<>>
    /\ opened = FALSE
    /\ frame = <<>>
    /\ disk = <<>>

Next == \/ db_next_uid
        \/ db_open_file
        \/ db_block
        \/ db_field
        \/ db_end_block

Spec == Init /\ [][Next]_vars

(* ---------------------------------------------------------------------- *)
(* Inputs of get_info_cache                                                *)
(* ---------------------------------------------------------------------- *)
MaxInfoFields == 3

(* a binary info/cache file: size, size, payload and the 8 bytes after it *)
InfoFile(fields) == [kind |-> "data", json |-> EmptyDict, bytes |-> Block(fields)]

I_aimid == Field(1, T_a)
I_nick == Field(12, T_b)
I_flags == Field(7, <<5, 0, 0, 0>>)
I_mail == Field(9, <<1>>)
I_unk0 == Field(4096, <<>>)
I_unkhdr == Field(4096, Field(12, T_w))

InfoPool == {I_aimid, I_nick, I_flags, I_mail, F_unk, I_unk0, I_unkhdr, F_badutf}

JsonInfo ==
    [x \in {"nick", "aimId", "friendly", "state", "userType", "attachedPhoneNumber",
            "globalFlags", "hasMail", "official"} |->
        CASE x = "nick" -> PyStr(T_b)
          [] x = "aimId" -> PyStr(T_a)
          [] x \in {"hasMail", "official"} -> PyBool(FALSE)
          [] OTHER -> PyStr(<<>>)]

JsonFile(json_data) == [kind |-> "text", json |-> json_data, bytes |-> <<>>]

OtherInfoFiles ==
    { JsonFile([x \in {"info"} |-> JsonInfo]),
      JsonFile([x \in {"info"} |-> [y \in (DOMAIN JsonInfo) \ {"state"} |-> JsonInfo[y]]]),
      JsonFile(EmptyDict),
      [kind |-> "error", json |-> EmptyDict, bytes |-> <<>>],
      [kind |-> "data", json |-> EmptyDict, bytes |-> <<1, 0, 0>>],
      [kind |-> "data", json |-> EmptyDict, bytes |-> Mismatch(<<I_aimid>>)],
      [kind |-> "data", json |-> EmptyDict,
       bytes |-> U32Bytes(32) \o U32Bytes(32) \o I_aimid] }

InfoInputs ==
    {<<InfoFile(fs)>> : fs \in Seqs(InfoPool, MaxInfoFields)}
    \cup {<<f>> : f \in OtherInfoFiles}
    \cup {<<f, InfoFile(<<I_nick>>)>> : f \in OtherInfoFiles \cup {InfoFile(<<I_aimid>>)}}

(* the state after construction: INFO_CACHE_FILES found by the directory walk *)
InitInfo ==
    /\ self \in {[NewParser EXCEPT !.INFO_CACHE_FILES = i] : i \in InfoInputs}
    /\ pc = "ic_file"
    /\ ui = 1
    /\ fi = 1
    /\ content = <<>>
    /\ blk = <<>>
    /\ blk_end = 0
    /\ offset = 0
    /\ sizes = <<>>
    /\ opened = FALSE
    /\ frame = <<>>
    /\ disk = <<>>

NextInfo == \/ ic_open_file
            \/ ic_field
            \/ ic_end_file

SpecInfo == InitInfo /\ [][NextInfo]_vars

(* ---------------------------------------------------------------------- *)
(* Calls of the helpers: the arguments are drawn from bounded sets, one    *)
(* action per helper applies it and records what it returns or raises      *)
(* ---------------------------------------------------------------------- *)
MaxNumBytes == 5
MaxNameLen == 3

Frame(fn, args) == [fn |-> fn, args |-> args, ret |-> None, of |-> None]

(* first characters of an identifier: one of each family and others *)
FirstChars == 32..126

(* three Base62 characters; "a!c" is not Base62 *)
ColorPool == {<<48, 48, 48>>, <<97, 98, 99>>, <<90, 90, 57>>, <<97, 33, 99>>}

(* a file-sharing identifier of 33 characters: type, size, colour or       *)
(* duration at 5, colour at 9, filler, hexadecimal timestamp at 22, tail   *)
FileId(c, c5, c9) ==
    <<c>> \o <<49, 97, 50, 98>> \o c5 \o <<90>> \o c9 \o <<48, 49, 50, 51, 52, 53, 54, 55, 56, 57>> \o <<53, 102, 53, 101, 49, 48, 48, 48>> \o <<120, 121, 122>>
TypeChars == {48, 50, 52, 56, 57, 65, 66, 67, 68, 71, 73, 76, 83, 122}
FileIds == {FileId(c, c5, c9) : c \in TypeChars, c5 \in ColorPool, c9 \in ColorPool}

S_files_icq == <<104, 120, 120, 112, 115, 58, 47, 47, 102, 105, 108, 101, 115, 46, 105, 99, 113, 46, 110, 101, 116>>
S_get == <<47, 103, 101, 116, 47>>

(* identifiers as they arrive at parse_file_id: whole, too short, with a   *)
(* bad timestamp, after a scheme and a path                                *)
Uris ==
    FileIds
    \cup {SubSeq(f, 1, 29) : f \in {FileId(48, <<97, 98, 99>>, <<97, 98, 99>>)}}
    \cup {[FileId(c, <<97, 98, 99>>, <<97, 98, 99>>) EXCEPT ![23] = 103] : c \in {48, 71}}
    \cup {[FileId(c, <<97, 98, 99>>, <<97, 98, 99>>) EXCEPT ![2] = 33] : c \in {48, 56, 71}}
    \cup {[FileId(c, <<97, 98, 99>>, <<97, 98, 99>>) EXCEPT ![4] = 33] : c \in {48, 56}}
    \cup {<<104, 120, 120, 112, 47>> \o FileId(48, <<97, 98, 99>>, <<97, 98, 99>>),
          <<104, 116, 116, 112, 58, 47, 47, 102, 105, 108, 101, 115, 46, 105, 99, 113, 46, 110, 101, 116, 47, 103, 101, 116, 47>> \o FileId(56, <<97, 98, 99>>, <<90, 90, 57>>),
          <<104, 120, 120, 112>> \o FileId(48, <<97, 98, 99>>, <<97, 98, 99>>),
          <<104, 120, 120, 112, 48, 49, 50, 51, 52, 53, 54, 55, 56, 57, 48, 49, 50, 51, 52, 53, 54, 55, 56, 57, 48, 49, 50, 51, 52, 53, 54, 55, 47, 115, 104, 111, 114, 116>>}

(* Python ints below 2^(8 * MaxNumBytes), and 62^8 - 1 *)
BytePool == {0, 1, 62, 255}
Nums == {Norm(s) : s \in Seqs(BytePool, MaxNumBytes)} \cup {Norm(<<n>>) : n \in 0..255}
        \cup {<<255, 0, 111, 68, 148, 198>>}

(* Base62 strings and strings with a character outside the alphabet *)
Base62Strs == {<<>>, <<48>>, <<48, 48>>, <<122>>, <<90>>, <<49, 48>>, <<97, 33, 99>>, <<45>>, <<90, 90, 90, 90, 90, 90, 90, 90>>}

NameChars == {97, 98, 120}
Names == Seqs(NameChars, MaxNameLen) \cup {<<97, 98, 99, 100, 101, 102>>, <<97, 98, 99, 120, 121, 122>>, <<97, 98, 120, 120, 120, 120>>}

(* the four bytes of a field's payload *)
Epochs == {<<a, b, 0, d>> : a \in {0, 1, 254, 255}, b \in {0, 255}, d \in {0, 1, 127, 128, 255}}
          \cup {<<255, 255, 255, 127>>, <<254, 255, 255, 127>>, <<254, 255, 255, 255>>,
                <<255, 255, 255, 255>>, <<0, 109, 187, 56>>, <<128, 81, 1, 0>>}
TimeTags == {3, 37}
TimeBlocks == {<<pre, Field(tag, e)>> : pre \in {<<>>, F_id1}, tag \in TimeTags, e \in Epochs}
              \cup {<<<<>>, FieldL(3, 4, <<1, 2>>)>>, <<<<>>, FieldL(3, 3, <<1, 2, 3>>)>>,
                    <<<<>>, Field(3, <<0, 0, 0, 0, 1, 0, 0, 0>>)>>}

FnCalls ==
    {Frame("extract_content_type", <<<<c>>>>) : c \in FirstChars}
    \cup {Frame("decode_color", <<f>>) : f \in FileIds}
    \cup {Frame("parse_file_id", <<u>>) : u \in Uris}
    \cup {Frame("Base62.encode", <<n>>) : n \in Nums}
    \cup {Frame("Base62.decode", <<s>>) : s \in Base62Strs}
    \cup {Frame("check_partial_match", <<p[1], p[2]>>) : p \in Names \X Names}
    \cup {Frame("read_time", <<UnpackII(b[1] \o b[2], Len(b[1])), b[1] \o b[2], Len(b[1])>>) :
             b \in TimeBlocks}

InitFn ==
    /\ self = NewParser
    /\ pc = "call"
    /\ ui = 1
    /\ fi = 1
    /\ content = <<>>
    /\ blk = <<>>
    /\ blk_end = 0
    /\ offset = 0
    /\ sizes = <<>>
    /\ opened = FALSE
    /\ frame \in FnCalls
    /\ disk = <<>>

(* the state after a call: the frame with its result *)
Done(r) ==
    /\ frame' = [frame EXCEPT !.ret = r]
    /\ pc' = IF r.exc = "" THEN "return" ELSE "raise"
    /\ UNCHANGED <<self, ui, fi, content, blk, blk_end, offset, sizes, opened, disk>>

call_extract_content_type ==
    /\ pc = "call" /\ frame.fn = "extract_content_type"
    /\ Done(Returns(PyStr(extract_content_type(frame.args[1]))))

(* FileSharingUriParser(file_id).decode_color() *)
ColorOf(o) == IF o.exc # "" THEN o ELSE decode_color(o.value)
call_decode_color ==
    /\ pc = "call" /\ frame.fn = "decode_color"
    /\ Done(ColorOf(FileSharingUriParser(frame.args[1])))

call_parse_file_id ==
    /\ pc = "call" /\ frame.fn = "parse_file_id"
    /\ Done(parse_file_id(frame.args[1]))

(* Base62.encode(n); the string is then handed to Base62.decode *)
call_Base62_encode ==
    /\ pc = "call" /\ frame.fn = "Base62.encode"
    /\ frame' = [fn |-> "Base62.decode", args |-> <<Base62_encode(frame.args[1])>>,
                 ret |-> None, of |-> PyInt(frame.args[1])]
    /\ pc' = "call"
    /\ UNCHANGED <<self, ui, fi, content, blk, blk_end, offset, sizes, opened, disk>>

call_Base62_decode ==
    /\ pc = "call" /\ frame.fn = "Base62.decode"
    /\ Done(Base62_decode(frame.args[1]))

call_check_partial_match ==
    /\ pc = "call" /\ frame.fn = "check_partial_match"
    /\ Done(Returns(PyBool(check_partial_match(frame.args[1], frame.args[2]))))

(* read_time(parser, chunk, blk, offset) *)
TimeDone(r) ==
    /\ frame' = [frame EXCEPT !.ret = r]
    /\ pc' = IF r.ok THEN "return" ELSE "raise"
    /\ UNCHANGED <<self, ui, fi, content, blk, blk_end, offset, sizes, opened, disk>>
call_read_time ==
    /\ pc = "call" /\ frame.fn = "read_time"
    /\ TimeDone(read_time(self, frame.args[1], frame.args[2], frame.args[3]))

NextFn == \/ call_extract_content_type
          \/ call_decode_color
          \/ call_parse_file_id
          \/ call_Base62_encode
          \/ call_Base62_decode
          \/ call_check_partial_match
          \/ call_read_time

SpecFn == InitFn /\ [][NextFn]_vars

(* the texts of the messages: plain, a file-sharing link, one without   *)
(* "/get/", one with a short identifier, one with a character outside  *)
(* Base62 in the size, and a link to another site                        *)
T_plain == <<104, 105>>
T_get == S_files_icq \o S_get \o FileId(48, <<97, 98, 99>>, <<97, 98, 99>>)
T_noget == S_files_icq \o <<47, 102, 105, 108, 101, 115, 47>> \o FileId(48, <<97, 98, 99>>, <<97, 98, 99>>)
T_short == S_files_icq \o S_get \o <<97, 98, 99>>
T_baduri == S_files_icq \o S_get \o [FileId(48, <<97, 98, 99>>, <<97, 98, 99>>) EXCEPT ![3] = 33]
T_web == <<115, 101, 101, 32, 104, 120, 120, 112, 115, 58, 47, 47, 101, 120, 97, 109, 112, 108, 101, 46, 99, 111, 109, 47, 97, 32, 110, 111, 119>>


(* ---------------------------------------------------------------------- *)
(* DesktopParser.correlate_data                                            *)
(*                                                                         *)
(* A uid is a string of the model.  SHARED_FILES[uid] is keyed by Python   *)
(* values: the message ids (int) and, after Step 1, the two str keys.  A   *)
(* message's SharedContentDetails is [ref, d]: ref is TRUE when it is the *)
(* very dict object SHARED_FILES[uid][msg_id] (line 1290), otherwise d is  *)
(* its own dict.                                                           *)
(* ---------------------------------------------------------------------- *)
K_MediaTypes == PyStr(<<77, 101, 100, 105, 97, 84, 121, 112, 101, 115>>)
K_NumberOfSharedItems == PyStr(<<78, 117, 109, 98, 101, 114, 79, 102, 83, 104, 97, 114, 101, 100, 73, 116, 101, 109, 115>>)
S_file == <<102, 105, 108, 101>>
S_link == <<108, 105, 110, 107>>
S_ptt == <<112, 116, 116>>
S_GROUP_CHAT == <<71, 82, 79, 85, 80, 32, 67, 72, 65, 84>>
S_PRIVATE == <<80, 82, 73, 86, 65, 84, 69>>

PyNat(n) == PyInt(Digits(n))

(* "@chat.agent" in uid: the uids of the model that contain it *)
ChatUids == {"c1@chat.agent"}
conversation_type(uid) == PyStr(IF uid \in ChatUids THEN S_GROUP_CHAT ELSE S_PRIVATE)

(* a str value that is a uid *)
PyUid(uid) == V("uid", uid)

MEDIA_TYPES == [k \in {"FILES", "IMAGES", "LINKS", "PTT", "VIDEOS", "OTHER"} |-> PyNat(0)]

Inc(d, k) == [d EXCEPT ![k] = PyNat(ToNat(@.v) + 1)]

(* lines 1220-1232 *)
MediaKey(value) ==
    IF value = PyStr(S_image) THEN "IMAGES"
    ELSE IF value = PyStr(S_video) THEN "VIDEOS"
    ELSE IF value = PyStr(S_file) THEN "FILES"
    ELSE IF value = PyStr(S_link) THEN "LINKS"
    ELSE IF value = PyStr(S_ptt) THEN "PTT"
    ELSE "OTHER"

MediaOne(item, media) ==
    IF ~Has(item, "SHARED_CONTENT_TYPE") THEN media
    ELSE Inc(media, MediaKey(item["SHARED_CONTENT_TYPE"]))

(* lines 1217-1232: the items of v; the MediaTypes item just added has no *)
(* SHARED_CONTENT_TYPE                                                     *)
RECURSIVE MediaLoop(_, _, _)
MediaLoop(v, keys, media) ==
    IF keys = {} THEN media
    ELSE MediaLoop(v, keys \ {CHOOSE x \in keys : TRUE},
                   MediaOne(v[CHOOSE x \in keys : TRUE], media))

(* lines 1215-1233, for one k *)
MediaOf(v) ==
    Put(Put(v, K_MediaTypes, MediaLoop(v, DOMAIN v, MEDIA_TYPES)),
        K_NumberOfSharedItems, PyNat(Cardinality(DOMAIN v)))

(* Step 1, lines 1214-1233 *)
step_media(s) ==
    [s EXCEPT !.SHARED_FILES = [k \in DOMAIN s.SHARED_FILES |-> MediaOf(s.SHARED_FILES[k])]]

(* lines 1235-1240, for one k *)
ContactMedia(s, k, c) ==
    IF Has(s.SHARED_FILES, k) THEN Put(c, "MediaInCommon", s.SHARED_FILES[k][K_MediaTypes])
    ELSE c
ContactGallery(s, k, c) ==
    IF Has(s.GALLERY_STATE, k) THEN Put(c, "GalleryContentDetails", s.GALLERY_STATE[k])
    ELSE c

(* Step 2, lines 1234-1240 *)
step_contacts(s) ==
    [s EXCEPT !.CONTACT_LIST =
        [k \in DOMAIN s.CONTACT_LIST |->
            ContactGallery(s, k, ContactMedia(s, k, s.CONTACT_LIST[k]))]]

(* lines 1257-1262: one message *)
CountOne(msg, st) ==
    IF ~Has(msg.MESSAGE, "DIRECTION") THEN st
    ELSE IF msg.MESSAGE.DIRECTION = PyStr(DIRECTION(TRUE))
    THEN [st EXCEPT !.msgs_sent = @ + 1]
    ELSE IF msg.MESSAGE.DIRECTION = PyStr(DIRECTION(FALSE))
    THEN [st EXCEPT !.msgs_rcvd = @ + 1]
    ELSE st

RECURSIVE CountLoop(_, _, _)
CountLoop(msgs, keys, st) ==
    IF keys = {} THEN st
    ELSE CountLoop(msgs, keys \ {CHOOSE x \in keys : TRUE},
                   CountOne(msgs[CHOOSE x \in keys : TRUE], st))

(* lines 1247-1255 *)
CountContact(cl, uid) ==
    IF ~Has(cl, uid)
    THEN [MESSAGE_FROM_NON_CONTACT |-> PyUid(uid), UID |-> PyUid(uid),
          AIMID |-> PyUid(uid), ConversationType |-> conversation_type(uid)]
    ELSE IF ~Has(cl[uid], "ConversationType")
    THEN Put(cl[uid], "ConversationType", conversation_type(uid))
    ELSE cl[uid]

(* lines 1263-1265 *)
CountStore(c, st) ==
    Put(Put(Put(c, "MessagesSent", PyNat(st.msgs_sent)),
            "MessagesReceived", PyNat(st.msgs_rcvd)),
        "MessagesTotal", PyNat(st.msgs_sent + st.msgs_rcvd))

(* lines 1266-1268 without the reset of line 1268 *)
CountEnd_noreset(st) ==
    [st EXCEPT !.total_sent = @ + st.msgs_sent, !.total_rcvd = @ + st.msgs_rcvd]

(* lines 1266-1268 *)
CountEnd(st) ==
    [st EXCEPT !.total_sent = @ + st.msgs_sent, !.total_rcvd = @ + st.msgs_rcvd,
               !.msgs_sent = 0, !.msgs_rcvd = 0]

(* lines 1242-1268, for one uid; st1 is st after the loop over msgs *)
CountUidEnd(uid, st1) ==
    CountEnd([st1 EXCEPT !.cl = Put(@, uid, CountStore(CountContact(@, uid), st1))])
CountUid(s, uid, st) ==
    CountUidEnd(uid, CountLoop(MessagesOf(s, uid), DOMAIN MessagesOf(s, uid), st))

RECURSIVE CountUids(_, _, _)
CountUids(s, uids, st) ==
    IF uids = {} THEN st
    ELSE CountUids(s, uids \ {CHOOSE x \in uids : TRUE},
                   CountUid(s, CHOOSE x \in uids : TRUE, st))

(* lines 1269-1271 *)
CountTotals(s, st) ==
    [s EXCEPT !.CONTACT_LIST = st.cl,
              !.INFO_CACHE = Put(Put(Put(@, "TOTAL_SENT", PyNat(st.total_sent)),
                                     "TOTAL_RCVD", PyNat(st.total_rcvd)),
                                 "TOTAL_ALL", PyNat(st.total_sent + st.total_rcvd))]

(* Step 3, lines 1241-1270 *)
step_counts(s) ==
    CountTotals(s, CountUids(s, DOMAIN s.MESSAGES,
                             [cl |-> s.CONTACT_LIST, msgs_sent |-> 0, msgs_rcvd |-> 0,
                              total_sent |-> 0, total_rcvd |-> 0]))

(* lines 1277-1284, for one uid *)
StateContact(s, uid) ==
    IF ~Has(s.CONTACT_LIST, uid)
    THEN [ConversationState |-> s.DIALOG_STATES[uid],
          ConversationType |-> conversation_type(uid)]
    ELSE IF ~Has(s.CONTACT_LIST[uid], "ConversationType")
    THEN Put(Put(s.CONTACT_LIST[uid], "ConversationState", s.DIALOG_STATES[uid]),
             "ConversationType", conversation_type(uid))
    ELSE Put(s.CONTACT_LIST[uid], "ConversationState", s.DIALOG_STATES[uid])

(* Step 4, lines 1271-1284 *)
step_states(s) ==
    [s EXCEPT !.CONTACT_LIST =
        [uid \in (DOMAIN s.CONTACT_LIST) \cup (DOMAIN s.DIALOG_STATES) |->
            IF Has(s.DIALOG_STATES, uid) THEN StateContact(s, uid) ELSE s.CONTACT_LIST[uid]]]

(* self.MESSAGES[uid][msg_id] = rec, through the dict object it is *)
SetRec(s, uid, msg_id, rec) ==
    IF s.MESSAGES[uid].ref
    THEN [s EXCEPT !.PARK = Put(@, uid, Put(@[uid], msg_id, rec))]
    ELSE [s EXCEPT !.MESSAGES = Put(@, uid, [ref |-> FALSE, d |-> Put(@[uid].d, msg_id, rec)])]

AliasOfShared == [ref |-> TRUE, d |-> EmptyDict]
OwnDetails(d) == [ref |-> FALSE, d |-> d]

(* lines 1286-1292, for one uid: the message ids that are keys of both *)
SpliceUid(s, uid, msgs) ==
    [m \in DOMAIN msgs |->
        IF Has(s.SHARED_FILES[uid], m) THEN Put(msgs[m], "SharedContentDetails", AliasOfShared)
        ELSE msgs[m]]

RECURSIVE SpliceLoop(_, _)
SpliceSet(s, uid) ==
    IF s.MESSAGES[uid].ref
    THEN [s EXCEPT !.PARK = Put(@, uid, SpliceUid(s, uid, @[uid]))]
    ELSE [s EXCEPT !.MESSAGES = Put(@, uid, [ref |-> FALSE, d |-> SpliceUid(s, uid, @[uid].d)])]
SpliceLoop(s, uids) ==
    IF uids = {} THEN s
    ELSE SpliceLoop(SpliceSet(s, CHOOSE x \in uids : TRUE), uids \ {CHOOSE x \in uids : TRUE})

(* Step 5, lines 1285-1292 *)
step_splice(s) == SpliceLoop(s, (DOMAIN s.SHARED_FILES) \cap (DOMAIN s.MESSAGES))

(* msg["SharedContentDetails"], through the dict object it is *)
Details(s, uid, msg_id, msg) ==
    IF msg["SharedContentDetails"].ref THEN s.SHARED_FILES[uid][msg_id]
    ELSE msg["SharedContentDetails"].d

URI_FIELDS == <<"TEXT", "QUOTE_TEXT", "QUOTE_URL", "URL">>

(* lines 1300-1307 *)
UriMeta(r) ==
    IF r.exc # "" THEN [exc |-> r.exc, hit |-> FALSE, value |-> EmptyDict]
    ELSE [exc |-> "", hit |-> TRUE,
          value |-> [URI_DECODED_METADATA |->
                        [URI_DECODED_CONTENT_TYPE |-> r.value[1],
                         URI_DECODED_CONTENT_TIMESTAMP |-> r.value[2],
                         URI_DECODED_CONTENT_SIZE |-> r.value[3]]]]

(* lines 1297-1308: the loop over the four fields; None.startswith is an   *)
(* AttributeError, [1] of a split without "/get/" an IndexError            *)
RECURSIVE UriScan(_, _)
UriScan(message, i) ==
    IF i > Len(URI_FIELDS) THEN [exc |-> "", hit |-> FALSE, value |-> EmptyDict]
    ELSE IF ~Has(message, URI_FIELDS[i]) THEN UriScan(message, i + 1)
    ELSE IF message[URI_FIELDS[i]].t # "str"
    THEN [exc |-> "AttributeError", hit |-> FALSE, value |-> EmptyDict]
    ELSE IF ~IsPrefix(S_files_icq, message[URI_FIELDS[i]].v) THEN UriScan(message, i + 1)
    ELSE IF Len(split(message[URI_FIELDS[i]].v, S_get)) < 2
    THEN [exc |-> "IndexError", hit |-> FALSE, value |-> EmptyDict]
    ELSE UriMeta(parse_file_id(split(message[URI_FIELDS[i]].v, S_get)[2]))

(* lines 1295-1308, for one message *)
UriOne(s, uid, msg_id, msg) ==
    IF Has(msg, "SharedContentDetails")
       /\ Has(Details(s, uid, msg_id, msg), "URI_DECODED_METADATA")
    THEN [exc |-> "", hit |-> FALSE, value |-> EmptyDict]
    ELSE UriScan(msg.MESSAGE, 1)

(* ---------------------------------------------------------------------- *)
(* The content.cache directory: get_filenames, match_url,                  *)
(* get_content_matches.  disk[path] is the directory at path: a dict from  *)
(* the name of an entry to [type]; no entry is a .json file                 *)
(* ---------------------------------------------------------------------- *)
S_https_slashes == <<104, 116, 116, 112, 115, 58, 47, 47>>
S_http_slashes == <<104, 116, 116, 112, 58, 47, 47>>
S_dir == <<100, 105, 114>>

(* os.path.join(file_path, item) *)
PathJoin(file_path, item) == file_path \o <<47>> \o item

(* get_filenames(file_path), lines 1491-1506 *)
get_filenames(d, file_path) ==
    [item \in DOMAIN d[file_path] |->
        [path |-> PyStr(PathJoin(file_path, item)),
         type |-> PyStr(IF d[file_path][item].type = "file" THEN S_file ELSE S_dir)]]

(* \s of a str pattern *)
Whitespace == {9, 10, 11, 12, 13, 28, 29, 30, 31, 32, 133, 160}

(* the length of the match of https?://[^\s]+ at the start of t, 0 if none *)
RECURSIVE NonSpaceRun(_)
NonSpaceRun(t) ==
    IF t = <<>> \/ t[1] \in Whitespace THEN 0 ELSE 1 + NonSpaceRun(Tail(t))
SchemeLen(t) ==
    IF IsPrefix(S_https_slashes, t) THEN Len(S_https_slashes)
    ELSE IF IsPrefix(S_http_slashes, t) THEN Len(S_http_slashes)
    ELSE 0
UrlMatch(t) ==
    IF SchemeLen(t) = 0 \/ NonSpaceRun(Drop(t, SchemeLen(t))) = 0 THEN 0
    ELSE SchemeLen(t) + NonSpaceRun(Drop(t, SchemeLen(t)))

(* re.search: the leftmost match, <<>> for None *)
RECURSIVE UrlSearch(_)
UrlSearch(t) ==
    IF t = <<>> THEN <<>>
    ELSE IF UrlMatch(t) > 0 THEN SubSeq(t, 1, UrlMatch(t))
    ELSE UrlSearch(Tail(t))

(* get_url_from_text(text), lines 1508-1514 *)
get_url_from_text(text) == UrlSearch(Replace(text, S_hxxp, S_http))

(* hashlib.md5(url).hexdigest() of the urls get_url_from_text finds in   *)
(* the texts above                                                      *)
get_md5 ==
    (get_url_from_text(T_get) :> <<55, 100, 57, 53, 48, 56, 54, 99, 99, 97, 51, 98, 101, 57, 99, 99, 98, 56, 52, 48, 53, 49, 57, 50, 101, 57, 49, 54, 52, 101, 57, 101>>)
    @@ (get_url_from_text(T_noget) :> <<57, 49, 49, 51, 51, 55, 57, 98, 99, 51, 101, 52, 51, 97, 102, 97, 54, 101, 55, 51, 97, 51, 54, 48, 100, 57, 49, 97, 49, 102, 48, 54>>)
    @@ (get_url_from_text(T_short) :> <<56, 101, 102, 50, 102, 98, 48, 52, 55, 56, 98, 50, 55, 100, 50, 51, 54, 50, 53, 53, 51, 98, 54, 51, 56, 51, 54, 55, 49, 48, 55, 49>>)
    @@ (get_url_from_text(T_baduri) :> <<97, 48, 53, 99, 101, 102, 101, 50, 49, 57, 100, 51, 55, 55, 102, 101, 52, 57, 98, 52, 50, 54, 98, 54, 53, 99, 49, 51, 102, 56, 54, 53>>)
    @@ (get_url_from_text(T_web) :> <<99, 100, 54, 57, 98, 56, 49, 101, 97, 48, 48, 99, 99, 50, 55, 57, 56, 55, 57, 55, 50, 57, 51, 99, 98, 99, 57, 50, 100, 54, 52, 51>>)
H_web == get_md5[get_url_from_text(T_web)]

(* match_url(text), lines 1399-1417: text is a str; url_hash is            *)
(* get_md5(url), from the table of the urls of the inputs                  *)
MatchEntry(s, filename, url, url_hash) ==
    [FILE_NAME |-> PyStr(filename),
     FILE_PATH |-> s.CACHE_FILES[filename].path,
     URL_HASH |-> PyStr(url_hash),
     TYPE |-> s.CACHE_FILES[filename].type,
     SANITIZED_URL |-> PyStr(sanitize(url))]
MatchHash(s, url, url_hash) ==
    [filename \in {f \in DOMAIN s.CACHE_FILES : check_partial_match(url_hash, f)} |->
        MatchEntry(s, filename, url, url_hash)]
MatchUrl(s, url) ==
    IF url = <<>> THEN EmptyDict ELSE MatchHash(s, url, get_md5[url])
match_url(s, text) ==
    IF ~IsSubstr(S_hxxp, text) THEN EmptyDict
    ELSE MatchUrl(s, get_url_from_text(text))

(* META | match_dict *)
Merge(a, b) == [k \in (DOMAIN a) \cup (DOMAIN b) |-> IF k \in DOMAIN b THEN b[k] ELSE a[k]]

(* lines 1372-1390, for one message: the four fields in order; "hxxp" in   *)
(* None is the TypeError that line 1396 catches, the message then has no   *)
(* entry                                                                   *)
RECURSIVE MetaLoop(_, _, _, _)
MetaLoop(s, message, i, meta) ==
    IF i > Len(URI_FIELDS) THEN meta
    ELSE IF ~Has(message, URI_FIELDS[i]) THEN MetaLoop(s, message, i + 1, meta)
    ELSE IF i = 1 /\ message[URI_FIELDS[i]] = PyStr(<<>>)
    THEN MetaLoop(s, message, i + 1, meta)
    ELSE IF message[URI_FIELDS[i]].t # "str" THEN EmptyDict
    ELSE MetaLoop(s, message, i + 1,
                  Merge(meta, match_url(s, message[URI_FIELDS[i]].v)))

MetaOf(s, uid, message_id) ==
    MetaLoop(s, MessagesOf(s, uid)[message_id].MESSAGE, 1, EmptyDict)

(* get_content_matches, lines 1364-1397: [none, d]; none is the None of an *)
(* empty MESSAGES                                                          *)
MatchedIds(s, uid) ==
    {m \in DOMAIN MessagesOf(s, uid) : MetaOf(s, uid, m) # EmptyDict}
get_content_matches(s) ==
    IF DOMAIN s.MESSAGES = {} THEN [none |-> TRUE, d |-> EmptyDict]
    ELSE [none |-> FALSE,
          d |-> [uid \in {u \in DOMAIN s.MESSAGES : MatchedIds(s, u) # {}} |->
                    [m \in MatchedIds(s, uid) |-> MetaOf(s, uid, m)]]]

(* lines 1316-1319, for one message of file_matches *)
AnnotateOwn(s, uid, message_id, msg, data_match) ==
    SetRec(s, uid, message_id,
           Put(msg, "SharedContentDetails",
               OwnDetails(Put(IF Has(msg, "SharedContentDetails")
                              THEN msg["SharedContentDetails"].d ELSE EmptyDict,
                              "SHARED_CONTENT_FILE_METADATA", data_match))))
AnnotateShared(s, uid, message_id, data_match) ==
    [s EXCEPT !.SHARED_FILES =
        Put(@, uid, Put(@[uid], message_id,
                        Put(@[uid][message_id], "SHARED_CONTENT_FILE_METADATA", data_match)))]
AnnotateOne(s, uid, message_id, msg, data_match) ==
    IF Has(msg, "SharedContentDetails") /\ msg["SharedContentDetails"].ref
    THEN AnnotateShared(s, uid, message_id, data_match)
    ELSE AnnotateOwn(s, uid, message_id, msg, data_match)

(* lines 1314-1319: pairs is the set of <<uid, message_id>> of file_matches *)
RECURSIVE AnnotateLoop(_, _, _)
AnnotatePair(s, p, file_matches) ==
    AnnotateOne(s, p[1], p[2], MessagesOf(s, p[1])[p[2]], file_matches[p[1]][p[2]])
AnnotateLoop(s, pairs, file_matches) ==
    IF pairs = {} THEN s
    ELSE AnnotateLoop(AnnotatePair(s, CHOOSE p \in pairs : TRUE, file_matches),
                      pairs \ {CHOOSE p \in pairs : TRUE}, file_matches)

Pairs(d) == UNION {{<<uid, m>> : m \in DOMAIN d[uid]} : uid \in DOMAIN d}

(* lines 1311-1319, after self.CACHE_FILES is set *)
step_matches(s, file_matches) ==
    IF file_matches.none THEN s ELSE AnnotateLoop(s, Pairs(file_matches.d), file_matches.d)
step_cache(s, d) == [s EXCEPT !.CACHE_FILES = get_filenames(d, s.CACHE_DIR.v)]

(* ---------------------------------------------------------------------- *)
(* correlate_data: one action per step                                     *)
(* ---------------------------------------------------------------------- *)
CorrStep(s, next) ==
    /\ self' = s
    /\ pc' = next
    /\ UNCHANGED <<ui, fi, content, blk, blk_end, offset, sizes, opened, frame, disk>>

corr_media == pc = "corr_media" /\ CorrStep(step_media(self), "corr_contacts")

corr_contacts == pc = "corr_contacts" /\ CorrStep(step_contacts(self), "corr_counts")

corr_counts == pc = "corr_counts" /\ CorrStep(step_counts(self), "corr_states")

corr_states == pc = "corr_states" /\ CorrStep(step_states(self), "corr_splice")

(* the messages Step 6 has yet to visit *)
AllMessages(s) == UNION {{<<uid, m>> : m \in DOMAIN MessagesOf(s, uid)} : uid \in DOMAIN s.MESSAGES}

corr_splice ==
    /\ pc = "corr_splice"
    /\ self' = step_splice(self)
    /\ frame' = [frame EXCEPT !.todo = AllMessages(self), !.uid = ""]
    /\ pc' = IF AllMessages(self) = {} THEN "corr_cache" ELSE "corr_uri"
    /\ UNCHANGED <<ui, fi, content, blk, blk_end, offset, sizes, opened, disk>>

(* Step 6, lines 1293-1308: one message; the dicts are walked in their     *)
(* order, which is any order of the uids and of the ids of a uid            *)
(* the line of Step 6 an exception comes from: startswith, [1],          *)
(* parse_file_id                                                           *)
RaisedAt(exc) ==
    CASE exc = "" -> 0
      [] exc = "AttributeError" -> 1299
      [] exc = "IndexError" -> 1300
      [] OTHER -> 1301

UriDone(p, r) ==
    /\ self' = IF r.hit
               THEN SetRec(self, p[1], p[2],
                           Put(MessagesOf(self, p[1])[p[2]], "SharedContentDetails",
                               OwnDetails(r.value)))
               ELSE self
    /\ frame' = [frame EXCEPT !.todo = @ \ {p}, !.uid = p[1], !.msg_id = p[2], !.exc = r.exc,
                              !.line = RaisedAt(r.exc)]
    /\ pc' = IF r.exc # "" THEN "raise"
             ELSE IF frame.todo = {p} THEN "corr_cache"
             ELSE "corr_uri"
corr_uri ==
    /\ pc = "corr_uri"
    /\ \E p \in frame.todo :
          /\ (\E q \in frame.todo : q[1] = frame.uid) => p[1] = frame.uid
          /\ UriDone(p, UriOne(self, p[1], p[2], MessagesOf(self, p[1])[p[2]]))
    /\ UNCHANGED <<ui, fi, content, blk, blk_end, offset, sizes, opened, disk>>

(* lines 1309-1319: os.path.exists(None) is a TypeError *)
CacheDone(s, file_matches) ==
    /\ self' = step_matches(s, file_matches)
    /\ frame' = [frame EXCEPT !.file_matches = file_matches]
    /\ pc' = "corr_hashes"
corr_cache ==
    /\ pc = "corr_cache"
    /\ IF self.CACHE_DIR = None
       THEN pc' = "raise" /\ frame' = [frame EXCEPT !.exc = "TypeError", !.line = 1309]
            /\ UNCHANGED self
       ELSE IF ~Has(disk, self.CACHE_DIR.v)
       THEN pc' = "return" /\ UNCHANGED <<self, frame>>
       ELSE CacheDone(step_cache(self, disk),
                      get_content_matches(step_cache(self, disk)))
    /\ UNCHANGED <<ui, fi, content, blk, blk_end, offset, sizes, opened, disk>>

(* lines 1320-1361: a directory without .json files has no JSON_METADATA,  *)
(* so no hash matches; line 1334 calls file_matches.items()                *)
corr_hashes ==
    /\ pc = "corr_hashes"
    /\ IF frame.file_matches.none
       THEN pc' = "raise" /\ frame' = [frame EXCEPT !.exc = "AttributeError", !.line = 1334]
            /\ self' = [self EXCEPT !.URL_METADATA = EmptyDict]
       ELSE pc' = "return" /\ UNCHANGED frame
            /\ self' = [self EXCEPT !.URL_METADATA = EmptyDict]
    /\ UNCHANGED <<ui, fi, content, blk, blk_end, offset, sizes, opened, disk>>


(* ---------------------------------------------------------------------- *)
(* Inputs of correlate_data: what the decoders left in the parser and the  *)
(* content.cache directory                                                 *)
(* ---------------------------------------------------------------------- *)
MaxMsgs == 2

OUTGOING == PyStr(DIRECTION(TRUE))
INCOMING == PyStr(DIRECTION(FALSE))

(* the MESSAGE dict of a message, without its MESSAGE_ID *)
BodyPool ==
    << [DIRECTION |-> OUTGOING, TEXT |-> PyStr(T_plain)],
       [DIRECTION |-> INCOMING, TEXT |-> PyStr(T_plain)],
       [TEXT |-> PyStr(T_plain)],
       [DIRECTION |-> OUTGOING, TEXT |-> PyStr(T_get)],
       [DIRECTION |-> INCOMING, TEXT |-> PyStr(T_web)],
       [DIRECTION |-> INCOMING, TEXT |-> PyStr(T_web), QUOTE_URL |-> PyStr(T_get)],
       [DIRECTION |-> INCOMING, TEXT |-> PyStr(T_noget)],
       [DIRECTION |-> INCOMING, TEXT |-> PyStr(T_short)],
       [DIRECTION |-> OUTGOING, TEXT |-> PyStr(T_baduri)],
       [DIRECTION |-> OUTGOING, TEXT |-> None] >>

(* MESSAGES[uid] as get_db_content leaves it: ids 1, 2, ... *)
MsgsOf(uid, bodies) ==
    [m \in {PyNat(i) : i \in 1..Len(bodies)} |->
        [MESSAGE |-> Put(BodyPool[bodies[ToNat(m.v)]], "MESSAGE_ID", m), UID |-> uid]]

MessagesIn(b1, b2) ==
    [uid \in (IF b1 = <<>> THEN {} ELSE {"u1"}) \cup (IF b2 = <<>> THEN {} ELSE {"c1@chat.agent"})
        |-> IF uid = "u1" THEN MsgsOf(uid, b1) ELSE MsgsOf(uid, b2)]

(* a contact as get_contact_list leaves it (lines 668-720): the counters   *)
(* of BLANK_CONTACT and the ConversationType of its uid                    *)
Contact(uid) ==
    [AIMID |-> PyUid(uid), UID |-> PyUid(uid),
     ConversationType |-> conversation_type(uid),
     MessagesReceived |-> PyNat(0), MessagesSent |-> PyNat(0), MessagesTotal |-> PyNat(0)]
ContactPool ==
    << EmptyDict,
       ("u1" :> Contact("u1")),
       ("u1" :> Contact("u1")) @@ ("c1@chat.agent" :> Contact("c1@chat.agent"))
       @@ ("u9" :> Contact("u9")) >>

S_SHARED_URL == PyStr(T_get)
Decoded == [URI_DECODED_CONTENT_TYPE |-> PyStr(<<105, 109, 97, 103, 101, 45, 114, 101, 103, 117, 108, 97, 114>>),
            URI_DECODED_CONTENT_TIMESTAMP |-> PyStr(<<50, 48, 50, 48, 45, 48, 57, 45, 49, 51, 32, 49, 50, 58, 50, 54, 58, 52, 48>>),
            URI_DECODED_CONTENT_SIZE |-> PyStr(<<55, 50, 32, 42, 32, 49, 51, 53, 44, 32, 99, 111, 108, 111, 114, 58, 32, 48, 120, 57, 56, 100, 101>>)]
SharedPool ==
    << EmptyDict,
       ("u1" :> (PyNat(1) :> [SHARED_CONTENT_TYPE |-> PyStr(S_image),
                              SHARED_MESSAGE_ID |-> PyNat(1)])),
       ("u1" :> ((PyNat(1) :> [SHARED_CONTENT_TYPE |-> PyStr(S_video),
                               SHARED_URL |-> S_SHARED_URL,
                               URI_DECODED_METADATA |-> Decoded])
                 @@ (PyNat(2) :> [SHARED_CONTENT_TYPE |-> PyStr(S_ptt)])
                 @@ (PyNat(7) :> [SHARED_MESSAGE_ID |-> PyNat(7)])))
       @@ ("u9" :> (PyNat(1) :> [SHARED_CONTENT_TYPE |-> PyStr(<<115, 116, 105, 99, 107, 101, 114>>)])) >>

(* <<GALLERY_STATE, DIALOG_STATES>> *)
StatePool ==
    << <<EmptyDict, EmptyDict>>,
       <<("u1" :> [IMAGES |-> PyNat(1)]),
         ("u1" :> [UNREAD_COUNT |-> PyNat(2)]) @@ ("u3" :> [UNREAD_COUNT |-> PyNat(0)])
         @@ ("c1@chat.agent" :> [UNREAD_COUNT |-> PyNat(1)])>> >>

P_cache == <<47, 99, 97, 115, 101, 47, 99, 111, 110, 116, 101, 110, 116, 46, 99, 97, 99, 104, 101>>

(* <<CACHE_DIR, the file system>>: no content.cache, a path that no longer *)
(* exists, an empty directory, a directory with files and a sub-directory  *)
CachePool ==
    << <<None, <<>>>>,
       <<PyStr(P_cache), <<>>>>,
       <<PyStr(P_cache), (P_cache :> EmptyDict)>>,
       <<PyStr(P_cache),
         (P_cache :> ((H_web :> [type |-> "file"])
                      @@ (SubSeq(H_web, 1, 16) :> [type |-> "file"])
                      @@ (<<97>> :> [type |-> "file"])
                      @@ (<<116, 104, 117, 109, 98, 115>> :> [type |-> "dir"])))>> >>

(* an input: the bodies of u1 and of the chat, and an index into each pool *)
BodySeqs == Seqs(1..Len(BodyPool), MaxMsgs)
CorrInputs ==
    (BodySeqs \X {<<>>} \X {<<1, 1, 1, 1>>, <<3, 3, 2, 4>>})
    \cup ({<<>>, <<1, 2>>, <<4, 5>>} \X {<<>>, <<2, 4>>}
          \X ((1..Len(ContactPool)) \X (1..Len(SharedPool)) \X (1..Len(StatePool))
              \X (1..Len(CachePool))))

CorrParser(i) ==
    [MESSAGES |-> [uid \in DOMAIN MessagesIn(i[1], i[2]) |-> ParkRef],
     PARK |-> MessagesIn(i[1], i[2]),
     CONTACT_LIST |-> ContactPool[i[3][1]],
     SHARED_FILES |-> SharedPool[i[3][2]],
     GALLERY_STATE |-> StatePool[i[3][3]][1],
     DIALOG_STATES |-> StatePool[i[3][3]][2],
     CACHE_DIR |-> CachePool[i[3][4]][1],
     CACHE_FILES |-> EmptyDict,
     URL_METADATA |-> EmptyDict] @@ NewParser

CorrFrame == [fn |-> "correlate_data", todo |-> {}, uid |-> "", msg_id |-> None, exc |-> "", line |-> 0,
              file_matches |-> [none |-> TRUE, d |-> EmptyDict]]

(* the state when main calls correlate_data (line 3653) *)
InitCorr ==
    /\ \E i \in CorrInputs :
          /\ self = CorrParser(i)
          /\ disk = CachePool[i[3][4]][2]
    /\ pc = "corr_media"
    /\ ui = 1
    /\ fi = 1
    /\ content = <<>>
    /\ blk = <<>>
    /\ blk_end = 0
    /\ offset = 0
    /\ sizes = <<>>
    /\ opened = FALSE
    /\ frame = CorrFrame

NextCorr == \/ corr_media
            \/ corr_contacts
            \/ corr_counts
            \/ corr_states
            \/ corr_splice
            \/ corr_uri
            \/ corr_cache
            \/ corr_hashes

SpecCorr == InitCorr /\ [][NextCorr]_vars

(* ---------------------------------------------------------------------- *)
(* DesktopParser.get_dlg_state, lines 1044-1108.  DIALOG_STATE_FILES is    *)
(* the sequence of its (uid, files) items; the uid of the running loop is  *)
(* DIALOG_STATE_FILES[ui][1].  frame.sub_end is history: the end of the    *)
(* payload of the last tag-7 field; frame.turn is history: the parity of   *)
(* the number of iterations the two field loops have run                   *)
(* ---------------------------------------------------------------------- *)
DlgUid == self.DIALOG_STATE_FILES[ui][1]

(* self.DIALOG_STATES[uid][key] = value *)
dlg_store(s, uid, key, value) ==
    [s EXCEPT !.DIALOG_STATES = Put(@, uid, Put(@[uid], key, value))]

DlgOut(ok, s, off, inner) == [ok |-> ok, self |-> s, offset |-> off, inner |-> inner]

(* lines 1069-1079, after the reader returned r; h is the row of the tag   *)
dlg_handle(uid, handler_id, h, r) ==
    IF ~r.ok THEN DlgOut(FALSE, r.parser, r.offset, FALSE)
    ELSE IF h[3] = "None" THEN DlgOut(TRUE, r.parser, r.offset, FALSE)
    ELSE IF ~r.parser.VERBOSE /\ r.value = PyStr(<<>>)
    THEN DlgOut(TRUE, r.parser, r.offset, FALSE)
    ELSE DlgOut(TRUE, dlg_store(r.parser, uid, h[2], r.value), r.offset, handler_id = 7)

(* lines 1066-1106: one iteration of the field loop of a block *)
dlg_dispatch(s, uid, chunk, b, off) ==
    IF chunk[1] \in DOMAIN dialog_state_handlers
    THEN dlg_handle(uid, chunk[1], dialog_state_handlers[chunk[1]],
                    CallBasic(dialog_state_handlers[chunk[1]][1], s, chunk, b, off))
    ELSE DlgOut(TRUE, s, Add(off, Add(8, chunk[2])), FALSE)

(* lines 1091-1094: DIRECTION of a tag-2 value *)
dlg_direction(s, uid, handler_id, value) ==
    IF handler_id = 2
    THEN dlg_store(s, uid, "DIRECTION",
                   PyStr(DIRECTION(value.v["OUTGOING"] = PyBool(TRUE))))
    ELSE s

(* lines 1086-1104, after the reader returned r; h is the row of handlers; *)
(* the row of tag 123 has no destination: handlers[123][2] is IndexError   *)
dlg_inner_handle(uid, handler_id, h, r) ==
    IF ~r.ok THEN DlgOut(FALSE, r.parser, r.offset, TRUE)
    ELSE IF Len(h) < 3 THEN DlgOut(FALSE, r.parser, r.offset, TRUE)
    ELSE IF handler_id # 5 /\ h[3] = "None"
    THEN DlgOut(TRUE, dlg_direction(r.parser, uid, handler_id, r.value), r.offset, TRUE)
    ELSE IF ~r.parser.VERBOSE /\ r.value = PyStr(<<>>)
    THEN DlgOut(TRUE, dlg_direction(r.parser, uid, handler_id, r.value), r.offset, TRUE)
    ELSE DlgOut(TRUE,
                dlg_store(dlg_direction(r.parser, uid, handler_id, r.value), uid,
                          IF handler_id = 13 THEN h[2] \o uid ELSE h[2], r.value),
                r.offset, TRUE)

(* lines 1081-1104: one iteration of the loop that follows tag 7; a tag    *)
(* that is no key of handlers leaves the cursor where it is                *)
dlg_inner_dispatch(s, uid, chunk, b, off) ==
    IF chunk[1] \in DOMAIN handlers
    THEN dlg_inner_handle(uid, chunk[1], handlers[chunk[1]],
                          Call(handlers[chunk[1]][1],
                               IF chunk[1] = 20 THEN [s EXCEPT !.CHAT_UID = uid] ELSE s,
                               chunk, b, off))
    ELSE DlgOut(TRUE, IF chunk[1] = 20 THEN [s EXCEPT !.CHAT_UID = uid] ELSE s, off, TRUE)

(* lines 1048-1050: the next item of DIALOG_STATE_FILES, or line 1108 *)
dlg_next_uid ==
    /\ pc = "dlg_uid"
    /\ IF ui > Len(self.DIALOG_STATE_FILES)
       THEN /\ pc' = "return"
            /\ UNCHANGED <<self, fi>>
       ELSE /\ self' = IF Has(self.DIALOG_STATES, DlgUid) THEN self
                       ELSE [self EXCEPT !.DIALOG_STATES = Put(@, DlgUid, EmptyDict)]
            /\ fi' = 1
            /\ pc' = "dlg_file"
    /\ UNCHANGED <<ui, content, blk, blk_end, offset, sizes, opened, frame, disk>>

(* lines 1051-1056: the next file is read and the cursor set to 0; an      *)
(* empty file returns None                                                 *)
dlg_open_file ==
    /\ pc = "dlg_file"
    /\ LET files == self.DIALOG_STATE_FILES[ui][2]
       IN IF fi > Len(files)
          THEN /\ ui' = ui + 1
               /\ pc' = "dlg_uid"
               /\ UNCHANGED <<fi, content, offset, sizes>>
          ELSE /\ content' = files[fi]
               /\ fi' = fi + 1
               /\ offset' = 0
               /\ sizes' = <<>>
               /\ pc' = IF Len(files[fi]) = 0 THEN "return" ELSE "dlg_block"
               /\ UNCHANGED ui
    /\ UNCHANGED <<self, blk, blk_end, opened, frame, disk>>

(* lines 1057-1065: the head of the block loop; the cursor is not touched  *)
dlg_block ==
    /\ pc = "dlg_block"
    /\ IF Len(content) < 16
       THEN /\ pc' = "dlg_file"
            /\ UNCHANGED <<self, blk, blk_end>>
       ELSE /\ pc' = IF db_header(content).ok THEN "dlg_field" ELSE "dlg_file"
            /\ self' = IF LE(SubSeq(content, 1, 4)) # LE(SubSeq(content, 5, 8)) THEN self
                       ELSE [self EXCEPT !.msg = None]
            /\ blk_end' = IF LE(SubSeq(content, 1, 4)) # LE(SubSeq(content, 5, 8))
                          THEN blk_end ELSE db_header(content).end
            /\ blk' = IF db_header(content).ok THEN db_header(content).blk ELSE blk
    /\ UNCHANGED <<ui, fi, content, offset, sizes, opened, frame, disk>>

dlg_field_done(chunk, r) ==
    /\ self' = r.self
    /\ offset' = r.offset
    /\ pc' = IF ~r.ok THEN "raise" ELSE IF r.inner THEN "dlg_inner" ELSE "dlg_field"
    /\ frame' = IF r.ok /\ r.inner /\ pc = "dlg_field"
                THEN [frame EXCEPT !.sub_end = Add(r.offset, chunk[2]), !.turn = 1 - @]
                ELSE [frame EXCEPT !.turn = 1 - @]

(* lines 1066-1079, 1105-1106: one field, decoded with the dialog-state    *)
(* table                                                                   *)
dlg_field ==
    /\ pc = "dlg_field"
    /\ Add(offset, 8) <= Len(blk)
    /\ dlg_field_done(UnpackII(blk, offset),
                      dlg_dispatch(self, DlgUid, UnpackII(blk, offset), blk, offset))
    /\ UNCHANGED <<ui, fi, content, blk, blk_end, sizes, opened, disk>>

(* lines 1080-1104: one field after tag 7, decoded with handlers *)
dlg_inner ==
    /\ pc = "dlg_inner"
    /\ Add(offset, 8) <= Len(blk)
    /\ dlg_field_done(UnpackII(blk, offset),
                      dlg_inner_dispatch(self, DlgUid, UnpackII(blk, offset), blk, offset))
    /\ UNCHANGED <<ui, fi, content, blk, blk_end, sizes, opened, disk>>

(* line 1107: both loops have the same condition, so the end of the loop   *)
(* after tag 7 is the end of the field loop                                *)
dlg_end_block ==
    /\ pc \in {"dlg_field", "dlg_inner"}
    /\ ~(Add(offset, 8) <= Len(blk))
    /\ content' = db_advance(content, blk_end)
    /\ sizes' = Append(sizes, blk_end - 8)
    /\ pc' = "dlg_block"
    /\ UNCHANGED <<self, ui, fi, blk, blk_end, offset, opened, frame, disk>>

(* ---------------------------------------------------------------------- *)
(* Inputs of get_dlg_state                                                 *)
(* ---------------------------------------------------------------------- *)
MaxDlgFields == 3

(* a head of the tag-20 payload: 4 bytes, the size of the items, the items *)
HeadOf(spacer, items) == U32Bytes(spacer) \o U32Bytes(Len(Concat(items))) \o Concat(items)

Fd_unread == Field(1, <<2, 0, 0, 0>>)
Fd_last == Field(2, Id1)
Fd_name == Field(12, T_a)
Fd_visible == Field(8, <<1>>)
(* tag 7 with the fields of the last message as its payload *)
Fd_sub == Field(7, F_a)
Fd_subid == Field(7, F_id1 \o F_b)
Fd_heads1 == Field(20, HeadOf(0, <<Field(21, T_a), Field(22, T_b)>>))
Fd_heads2 == Field(20, HeadOf(0, <<Field(21, T_a), Field(22, T_b)>>)
                       \o HeadOf(0, <<Field(21, T_w), Field(22, T_hello)>>))

DlgPool == {Fd_unread, Fd_name, Fd_sub, Fd_heads1, F_unk, Fd_last}
DlgSmall == {Fd_unread, Fd_name, Fd_visible}

DlgIn1(f) == << <<"u1", <<f>>>> >>

(* one block; two blocks in one file, in two files, in the files of two    *)
(* uids; a file may be empty; blocks with two heads                        *)
DlgOneBlock == {DlgIn1(Block(fs)) : fs \in Seqs(DlgPool, MaxDlgFields)}
DlgTwoBlocks ==
    UNION {
        { DlgIn1(Block(p[1]) \o Block(p[2])),
          << <<"u1", <<Block(p[1]), Block(p[2])>>>> >>,
          << <<"u1", <<Block(p[1])>>>>, <<"u2", <<Block(p[2])>>>> >> }
        : p \in Seqs(DlgSmall, MaxTiny) \X Seqs(DlgSmall, MaxSmall)}
DlgEmptyFile ==
    UNION {
        { << <<"u1", << <<>>, Block(fs)>>>> >>,
          << <<"u1", << <<>> >>>>, <<"u2", <<Block(fs)>>>> >> }
        : fs \in Seqs(DlgSmall, MaxTiny)}
DlgHeads ==
    {DlgIn1(Block(fs)) : fs \in {<<Fd_heads2>>, <<Fd_heads2, Fd_name>>,
                                 <<Fd_subid, Fd_heads2>>, <<Fd_sub, Fd_heads2, Fd_name>>,
                                 <<Fd_subid, Fd_name, Fd_visible>>}}

DlgInputs == {<<>>} \cup DlgOneBlock \cup DlgTwoBlocks \cup DlgEmptyFile \cup DlgHeads

DlgFrame == [fn |-> "get_dlg_state", sub_end |-> 0, turn |-> 0]

(* the state after construction: DIALOG_STATE_FILES found by the directory *)
(* walk                                                                    *)
InitDlg ==
    /\ self \in {[DIALOG_STATE_FILES |-> i] @@ NewParser : i \in DlgInputs}
    /\ pc = "dlg_uid"
    /\ ui = 1
    /\ fi = 1
    /\ content = <<>>
    /\ blk = <<>>
    /\ blk_end = 0
    /\ offset = 0
    /\ sizes = <<>>
    /\ opened = FALSE
    /\ frame = DlgFrame
    /\ disk = <<>>

NextDlg == \/ dlg_next_uid
           \/ dlg_open_file
           \/ dlg_block
           \/ dlg_field
           \/ dlg_inner
           \/ dlg_end_block

SpecDlg == InitDlg /\ [][NextDlg]_vars

(* get_dlg_state under the fairness of a running program: the interpreter *)
(* always runs the next step of the one thread there is.  The files are    *)
(* one block of a tag-7 field, a field of an unknown tag and a name        *)
DlgLiveInputs == {DlgIn1(Block(fs)) : fs \in Seqs({Fd_sub, F_unk, Fd_name}, MaxDlgFields)}
InitDlgLive ==
    /\ self \in {[DIALOG_STATE_FILES |-> i] @@ NewParser : i \in DlgLiveInputs}
    /\ pc = "dlg_uid"
    /\ ui = 1
    /\ fi = 1
    /\ content = <<>>
    /\ blk = <<>>
    /\ blk_end = 0
    /\ offset = 0
    /\ sizes = <<>>
    /\ opened = FALSE
    /\ frame = DlgFrame
    /\ disk = <<>>
SpecDlgLive == InitDlgLive /\ [][NextDlg]_vars /\ WF_vars(NextDlg)

(* ---------------------------------------------------------------------- *)
(* DesktopParser.get_drafts, lines 927-991.  DRAFT_FILES is the sequence   *)
(* of its (uid, files) items; a draft file is read as one run of fields.   *)
(* frame.turn is history: the parity of the number of iterations run       *)
(* ---------------------------------------------------------------------- *)
draft_files_handlers ==
    (1 :> <<"read_value", "DRAFT_STATE", "DRAFT">>) @@
    (2 :> <<"read_time", "DRAFT_TIME", "DRAFT">>) @@
    (3 :> <<"read_size", "DRAFT_MESSAGE_BLOCK_SIZE", "DRAFT">>) @@
    (4 :> <<"read_time", "DRAFT_LOCAL_TIME", "DRAFT">>) @@
    (5 :> <<"read_text", "DRAFT_FRIENDLY_NAME", "DRAFT">>) @@
    (68 :> <<"read_value", "OFFLINE_VERSION", "None">>) @@
    (89 :> <<"read_bool", "HIDE_EDIT", "None">>)

DraftUid == self.DRAFT_FILES[ui][1]

(* read_time(..., update_ts=True), lines 1558-1573: parser.TS = unix_ts *)
read_time_ts(parser, chunk, b, off) ==
    IF ~read_time(parser, chunk, b, off).ok THEN read_time(parser, chunk, b, off)
    ELSE [read_time(parser, chunk, b, off) EXCEPT
             !.parser.TS = UnpackFirst(chunk[2], b, Add(off, 8)).d]

(* self.DRAFTS[uid][self.TS][key] = value, the record created at need *)
dr_store(s, uid, key, value) ==
    [s EXCEPT !.DRAFTS =
        Put(@, uid, Put(@[uid], PyInt(s.TS),
                        Put(IF Has(@[uid], PyInt(s.TS)) THEN @[uid][PyInt(s.TS)]
                            ELSE EmptyDict,
                            key, value)))]

(* lines 965-967: every item of PARK is copied into the record of TS *)
dr_copy_park(s, uid) ==
    [s EXCEPT !.DRAFTS =
        Put(@, uid, Put(@[uid], PyInt(s.TS),
                        [k \in (DOMAIN @[uid][PyInt(s.TS)]) \cup (DOMAIN s.PARK) |->
                            IF Has(s.PARK, k) THEN s.PARK[k] ELSE @[uid][PyInt(s.TS)][k]]))]

(* lines 953-968, after the reader returned r; h is the row of the tag *)
dr_handle(uid, handler_id, h, r) ==
    IF ~r.ok THEN DlgOut(FALSE, r.parser, r.offset, FALSE)
    ELSE IF handler_id = 1
    THEN DlgOut(TRUE, [r.parser EXCEPT !.PARK = Put(@, h[2], r.value)], r.offset, FALSE)
    ELSE IF h[3] = "None" THEN DlgOut(TRUE, r.parser, r.offset, FALSE)
    ELSE IF ~r.parser.VERBOSE /\ r.value = PyStr(<<>>)
    THEN DlgOut(TRUE, r.parser, r.offset, FALSE)
    ELSE IF handler_id = 2
    THEN DlgOut(TRUE, dr_copy_park(dr_store(r.parser, uid, h[2], r.value), uid),
                r.offset, FALSE)
    ELSE DlgOut(TRUE, dr_store(r.parser, uid, h[2], r.value), r.offset, handler_id = 3)

(* lines 942-990: one iteration of the field loop; struct.unpack_from      *)
(* raises struct.error when fewer than 8 bytes are left                    *)
dr_dispatch(s, uid, b, off) ==
    IF Add(off, 8) > Len(b) THEN DlgOut(FALSE, s, off, FALSE)
    ELSE IF UnpackII(b, off)[1] \notin DOMAIN draft_files_handlers
    THEN DlgOut(TRUE, s, Add(off, Add(8, UnpackII(b, off)[2])), FALSE)
    ELSE dr_handle(uid, UnpackII(b, off)[1], draft_files_handlers[UnpackII(b, off)[1]],
                   IF UnpackII(b, off)[1] = 2
                   THEN read_time_ts(s, UnpackII(b, off), b, off)
                   ELSE CallBasic(draft_files_handlers[UnpackII(b, off)[1]][1], s,
                                  UnpackII(b, off), b, off))

(* lines 974-988, after the reader returned r; h is the row of handlers *)
dr_inner_handle(uid, h, r) ==
    IF ~r.ok THEN DlgOut(FALSE, r.parser, r.offset, TRUE)
    ELSE IF Len(h) < 3 THEN DlgOut(FALSE, r.parser, r.offset, TRUE)
    ELSE IF h[3] = "None" THEN DlgOut(TRUE, r.parser, r.offset, TRUE)
    ELSE IF ~r.parser.VERBOSE /\ r.value = PyStr(<<>>)
    THEN DlgOut(TRUE, r.parser, r.offset, TRUE)
    ELSE DlgOut(TRUE,
                dr_store(r.parser, uid,
                         IF h[2] = "PREVIOUS_MESSAGE_ID_WITH_"
                         THEN "DRAFT_PREVIOUS_MESSAGE_ID" ELSE h[2],
                         r.value),
                r.offset, TRUE)

(* lines 969-988: one iteration of the loop that follows tag 3; a tag that *)
(* is no key of handlers leaves the cursor where it is                     *)
dr_inner_dispatch(s, uid, b, off) ==
    IF Add(off, 8) > Len(b) THEN DlgOut(FALSE, s, off, TRUE)
    ELSE IF UnpackII(b, off)[1] \notin DOMAIN handlers THEN DlgOut(TRUE, s, off, TRUE)
    ELSE dr_inner_handle(uid, handlers[UnpackII(b, off)[1]],
                         Call(handlers[UnpackII(b, off)[1]][1], s, UnpackII(b, off), b, off))

(* line 930: the next item of DRAFT_FILES, or the return of line 991 *)
dr_next_uid ==
    /\ pc = "dr_uid"
    /\ IF ui > Len(self.DRAFT_FILES)
       THEN pc' = "return" /\ UNCHANGED fi
       ELSE pc' = "dr_file" /\ fi' = 1
    /\ UNCHANGED <<self, ui, content, blk, blk_end, offset, sizes, opened, frame, disk>>

(* lines 931-940: the next file is read; an empty file is passed over *)
dr_open_file ==
    /\ pc = "dr_file"
    /\ LET files == self.DRAFT_FILES[ui][2]
       IN IF fi > Len(files)
          THEN /\ ui' = ui + 1
               /\ pc' = "dr_uid"
               /\ UNCHANGED <<self, fi, content, blk, offset>>
          ELSE /\ content' = files[fi]
               /\ blk' = files[fi]
               /\ fi' = fi + 1
               /\ offset' = 0
               /\ pc' = IF Len(files[fi]) = 0 THEN "dr_file" ELSE "dr_field"
               /\ self' = IF Len(files[fi]) = 0 \/ Has(self.DRAFTS, DraftUid) THEN self
                          ELSE [self EXCEPT !.DRAFTS = Put(@, DraftUid, EmptyDict)]
               /\ UNCHANGED ui
    /\ UNCHANGED <<blk_end, sizes, opened, frame, disk>>

dr_field_done(r) ==
    /\ self' = r.self
    /\ offset' = r.offset
    /\ pc' = IF ~r.ok THEN "raise" ELSE IF r.inner THEN "dr_inner" ELSE "dr_field"
    /\ frame' = [frame EXCEPT !.turn = 1 - @]

(* lines 942-968, 989-990: one field, decoded with draft_files_handlers *)
dr_field ==
    /\ pc = "dr_field"
    /\ offset < Len(blk)
    /\ dr_field_done(dr_dispatch(self, DraftUid, blk, offset))
    /\ UNCHANGED <<ui, fi, content, blk, blk_end, sizes, opened, disk>>

(* lines 969-988: one field after tag 3, decoded with handlers *)
dr_inner ==
    /\ pc = "dr_inner"
    /\ offset < Len(blk)
    /\ dr_field_done(dr_inner_dispatch(self, DraftUid, blk, offset))
    /\ UNCHANGED <<ui, fi, content, blk, blk_end, sizes, opened, disk>>

(* line 990: the three loops have the same condition; the rest of the file *)
(* is dropped                                                              *)
dr_end_file ==
    /\ pc \in {"dr_field", "dr_inner"}
    /\ ~(offset < Len(blk))
    /\ content' = <<>>
    /\ pc' = "dr_file"
    /\ UNCHANGED <<self, ui, fi, blk, blk_end, offset, sizes, opened, frame, disk>>

(* ---------------------------------------------------------------------- *)
(* Inputs of get_drafts                                                    *)
(* ---------------------------------------------------------------------- *)
MaxDraftFields == 3
Time2 == <<0, 32, 32, 96>>
Dr_state == Field(1, <<1, 0, 0, 0>>)
Dr_time == Field(2, Time1)
Dr_time2 == Field(2, Time2)
Dr_name == Field(5, T_a)
Dr_msg == Field(3, F_id1 \o F_wid)

DraftPool == {Dr_state, Dr_time, Dr_name, Dr_msg, F_unk}
DraftSmall == {Dr_state, Dr_time, Dr_time2}

(* one file; two files of one uid; the files of two uids; a file may be    *)
(* empty                                                                   *)
DraftInputs ==
    {<<>>}
    \cup {<< <<"u1", <<Concat(fs)>>>> >> : fs \in Seqs(DraftPool, MaxDraftFields)}
    \cup UNION {{ << <<"u1", <<Concat(p[1]), Concat(p[2])>>>> >>,
                  << <<"u1", <<Concat(p[1])>>>>, <<"u2", <<Concat(p[2])>>>> >> }
                : p \in Seqs(DraftSmall, MaxSmall) \X Seqs(DraftSmall, MaxTiny)}

(* the state after construction: DRAFT_FILES found by the directory walk;  *)
(* get_drafts runs before get_db_content (lines 3622, 3642)                *)
InitDraft ==
    /\ self \in {[DRAFT_FILES |-> i, DRAFTS |-> EmptyDict] @@ NewParser : i \in DraftInputs}
    /\ pc = "dr_uid"
    /\ ui = 1
    /\ fi = 1
    /\ content = <<>>
    /\ blk = <<>>
    /\ blk_end = 0
    /\ offset = 0
    /\ sizes = <<>>
    /\ opened = FALSE
    /\ frame = [fn |-> "get_drafts", turn |-> 0]
    /\ disk = <<>>

NextDraft == \/ dr_next_uid
             \/ dr_open_file
             \/ dr_field
             \/ dr_inner
             \/ dr_end_file

SpecDraft == InitDraft /\ [][NextDraft]_vars

(* ---------------------------------------------------------------------- *)
(* Properties of get_db_content (checked under Spec)                       *)
(* ---------------------------------------------------------------------- *)

(* DB_FILES with one user-id and one file *)
In1(f) == << <<"u1", <<f>>>> >>

M1 == PyInt(<<1>>)
S_time1 == <<50, 48, 50, 49, 45, 48, 50, 45, 48, 55, 32, 49, 54, 58, 48, 54, 58, 50, 52>>

(* the header at the cursor of the field loop *)
Chunk == UnpackII(blk, offset)
InFieldLoop == pc = "db_field" /\ Add(offset, 8) <= Len(blk)

(* the MESSAGE dict of message 1 of u1 *)
Msg1 == MessagesOf(self, "u1")[M1]["MESSAGE"]

C1_IdTextTime == In1(Block(<<F_id1, F_hello, F_time>>))
C1_TextIdTime == In1(Block(<<F_hello, F_id1, F_time>>))

C2_Original ==
    \A u \in DOMAIN self.PARK :
        ~Has(self.PARK[u], None) /\ ~Has(MessagesOf(self, u), None)

(* the record keyed by the null id, as the code leaves it *)
C2_Witness ==
    /\ pc = "return" /\ self.DB_FILES = In1(Block(<<F_idNull>>))
    /\ Has(self.PARK["u1"], None)
    /\ self.PARK["u1"][None] = [MESSAGE |-> [MESSAGE_ID |-> None], UID |-> "u1"]
    /\ Has(MessagesOf(self, "u1"), None)

(* the tag at the cursor is routed to MESSAGE or VOIP and is not tag 1 *)
Routed ==
    /\ Chunk[1] \in DOMAIN handlers
    /\ Chunk[1] # 1
    /\ Len(handlers[Chunk[1]]) >= 3
    /\ handlers[Chunk[1]][3] \in {"MESSAGE", "VOIP"}

(* C3, as stated: a routed field decoded before the block's first tag 1    *)
(* changes no record of any message id and raises no exception             *)
C3_Original ==
    [][(InFieldLoop /\ ~opened /\ Routed
        /\ Call(handlers[Chunk[1]][1], self, Chunk, blk, offset).ok)
       => (self'.PARK = self.PARK /\ pc' # "raise")]_vars

(* a WID field that opens the second block lands in the record the first *)
(* block opened                                                          *)
C3_Witness ==
    /\ pc = "return"
    /\ self.DB_FILES = In1(Block(<<F_id1>>) \o Block(<<F_wid>>))
    /\ Msg1 = [MESSAGE_ID |-> M1, WID |-> PyStr(T_w)]

(* the reader of the field at the cursor raises *)
ReaderFails ==
    /\ Chunk[1] \in DOMAIN handlers
    /\ ~Call(handlers[Chunk[1]][1], self, Chunk, blk, offset).ok

(* C4, as stated: when a primitive reader fails no exception reaches the   *)
(* caller of get_db_content and the records decoded before are kept        *)
C4_Original ==
    [][(InFieldLoop /\ ReaderFails) => (pc' # "raise" /\ self'.PARK = self.PARK)]_vars

(* the KeyError of STRUCT_DICT[3] has left get_db_content *)
C4_Witness ==
    /\ pc = "raise" /\ self.DB_FILES = In1(Block(<<F_id1, F_len3>>))
    /\ Has(self.PARK["u1"], M1)
    /\ self.MESSAGES["u1"] = OwnDict

C5_Good == <<F_hello, F_id1, F_time>>
C5_Park ==
    "u1" :> (M1 :> [MESSAGE |-> [MESSAGE_ID |-> M1, TEXT |-> PyStr(T_hello),
                                 TIME |-> PyStr(S_time1), TIME_RAW |-> PyInt(Time1)],
                    UID |-> "u1"])

(* the next block header has size != size-check *)
C5_Differ ==
    /\ pc = "db_block" /\ Len(content) >= 16
    /\ SubSeq(content, 1, 4) # SubSeq(content, 5, 8)

(* the good block alone, and followed by a header with size != size-check, *)
(* give the same records                                                   *)
C5_SameOutput ==
    (/\ pc = "return"
     /\ self.DB_FILES \in {In1(Block(C5_Good)), In1(Block(C5_Good) \o Corrupt),
                           In1(Block(C5_Good) \o Mismatch(<<F_a, F_id2>>))})
    => (self.PARK = C5_Park /\ self.MESSAGES = ("u1" :> ParkRef))

(* C5: at a block header with size != size-check the decoding of the file  *)
(* stops without raising and every record is kept: the step goes on to the *)
(* next file with self unchanged, and a good block followed by             *)
(* FF FF FF FF 00 00 00 00 ... yields the output of the good block alone   *)
C5_HeaderMismatch ==
    /\ []C5_SameOutput
    /\ [][C5_Differ => (pc' = "db_file" /\ self' = self)]_vars

C5_Witness ==
    /\ pc = "db_file" /\ sizes # <<>> /\ content = Corrupt
    /\ self.PARK = C5_Park

(* the only file of the only user-id *)
File1 == self.DB_FILES[1][2][1]

CurFile == self.DB_FILES[ui][2][fi - 1]

(* the sum of 8 + size + 8 over block sizes *)
RECURSIVE SumFramed(_)
SumFramed(ss) == IF ss = <<>> THEN 0 ELSE Head(ss) + 16 + SumFramed(Tail(ss))

(* a file that is a concatenation of blocks size, size, payload, 8 bytes *)
RECURSIVE WellFramed(_)
WellFramed(f) ==
    \/ f = <<>>
    \/ /\ Len(f) >= 16
       /\ SubSeq(f, 1, 4) = SubSeq(f, 5, 8)
       /\ U32(SubSeq(f, 1, 4)) + 16 <= Len(f)
       /\ WellFramed(Drop(f, U32(SubSeq(f, 1, 4)) + 16))

(* C7: the outer cursor has consumed exactly the sum of 8 + size + 8 over  *)
(* the decoded blocks; the field loop is given the bytes [8 .. size + 8)   *)
(* of the block; and when a well-formed file has been decoded that sum is  *)
(* the file length                                                         *)
C7_Framing ==
    /\ pc \in {"db_block", "db_field"} => content = Drop(CurFile, SumFramed(sizes))
    /\ pc = "db_field" =>
          /\ blk_end = U32(SubSeq(content, 1, 4)) + 8
          /\ blk = SubSeq(content, 9, blk_end)
    /\ (pc = "db_file" /\ fi > 1 /\ WellFramed(CurFile)) =>
          (SumFramed(sizes) = Len(CurFile) /\ content = <<>>)

C7_Witness ==
    /\ pc = "db_file" /\ fi > 1 /\ WellFramed(CurFile)
    /\ Len(sizes) = 2 /\ sizes[1] > 0 /\ sizes[2] > 0
    /\ SumFramed(sizes) = Len(CurFile)

C8_Park ==
    "u1" :> (M1 :> [MESSAGE |-> [MESSAGE_ID |-> M1, TEXT |-> PyStr(T_a),
                                 WID |-> PyStr(T_w)],
                    UID |-> "u1"])

(* a block with and without the unknown field gives the same records *)
C8_SameOutput ==
    (/\ pc = "return"
     /\ self.DB_FILES \in {In1(Block(<<F_a, F_id1, F_unk, F_wid>>)),
                           In1(Block(<<F_a, F_id1, F_wid>>))})
    => self.PARK = C8_Park

(* C8: a field whose tag is not in the message-history table moves the     *)
(* cursor by 8 + length and changes nothing else; a field of tag 4096 and  *)
(* length 7 between two fields leaves the decoded records identical        *)
C8_TagSkip ==
    /\ []C8_SameOutput
    /\ [][(InFieldLoop /\ Chunk[1] \notin DOMAIN handlers)
          => (/\ offset' = Add(Add(offset, 8), Chunk[2])
              /\ self' = self
              /\ pc' = "db_field")]_vars

C8_Witness ==
    /\ pc = "return" /\ self.DB_FILES = In1(Block(<<F_a, F_id1, F_unk, F_wid>>))
    /\ self.PARK = C8_Park

(* DB_FILES with one user-id and two files *)
In2(f, g) == << <<"u1", <<f, g>>>> >>

C11_FileA == Block(<<F_a, F_id1>>)
C11_FileB == Block(<<F_b, F_id1>>)

(* C11, as stated: the records of one user-id spread over two files decode *)
(* to the same MESSAGES[uid] in either order of the files: the order A, B  *)
(* gives TEXT "a\nb" (C11_Witness), so the order B, A gives it too         *)
C11_Original ==
    (pc = "return" /\ self.DB_FILES \in {In2(C11_FileA, C11_FileB),
                                         In2(C11_FileB, C11_FileA)})
    => MessagesOf(self, "u1") =
          (M1 :> [MESSAGE |-> [MESSAGE_ID |-> M1, TEXT |-> PyStr(<<97, 10, 98>>)],
                  UID |-> "u1"])

(* the output of the order A, B *)
C11_Witness ==
    /\ pc = "return" /\ self.DB_FILES = In2(C11_FileA, C11_FileB)
    /\ MessagesOf(self, "u1") =
          (M1 :> [MESSAGE |-> [MESSAGE_ID |-> M1, TEXT |-> PyStr(<<97, 10, 98>>)],
                  UID |-> "u1"])

C10_ab == In1(Block(<<F_a, F_id1, F_b, F_id1>>))
C10_aa == In1(Block(<<F_a, F_id1, F_a, F_id1>>))

(* the id the tag-1 field at the cursor decodes to *)
ReadId == read_message_id(self, Chunk, blk, offset)

(* tag 1 reopens an id whose record has a stored, non-null TEXT, with a    *)
(* non-null scratch cell                                                   *)
C10_Reopen ==
    /\ InFieldLoop /\ Chunk[1] = 1 /\ ReadId.ok
    /\ self.msg # None
    /\ Has(self.PARK[self.uid], ReadId.value)
    /\ Has(self.PARK[self.uid][ReadId.value]["MESSAGE"], "TEXT")
    /\ self.PARK[self.uid][ReadId.value]["MESSAGE"]["TEXT"] # None

C10_Examples ==
    pc = "return" =>
        /\ self.DB_FILES = C10_ab => Msg1["TEXT"] = PyStr(<<97, 10, 98>>)
        /\ self.DB_FILES = C10_aa => Msg1["TEXT"] = PyStr(<<97>>)

(* C10: "a", tag 1, "b", tag 1 of the same id give TEXT == "a\nb"; when    *)
(* tag 1 reopens an id with stored text and the scratch cell is non-null,  *)
(* the scratch text is appended after a newline if it differs from the     *)
(* stored text, and TEXT is unchanged if it is equal                       *)
C10_Coalesce ==
    /\ []C10_Examples
    /\ [][C10_Reopen =>
            self'.PARK[self.uid][ReadId.value]["MESSAGE"]["TEXT"] =
                IF self.msg = self.PARK[self.uid][ReadId.value]["MESSAGE"]["TEXT"]
                THEN self.msg
                ELSE PyStr(self.PARK[self.uid][ReadId.value]["MESSAGE"]["TEXT"].v
                           \o <<10>> \o self.msg.v)]_vars

C10_Witness ==
    /\ pc = "return" /\ self.DB_FILES = C10_ab
    /\ Msg1["TEXT"] = PyStr(<<97, 10, 98>>)

(* ---------------------------------------------------------------------- *)
(* Properties of get_info_cache (checked under SpecInfo)                   *)
(* ---------------------------------------------------------------------- *)

(* known fields after an unknown one are decoded as if it were absent *)
C9_SameValues ==
    self.INFO_CACHE_FILES = <<InfoFile(<<F_unk, I_aimid>>)>> =>
        /\ pc # "raise"
        /\ (pc = "return" => self.INFO_CACHE = [AIMID |-> PyStr(T_a)])

(* C9, as stated: in the binary form of info/cache a field whose tag is    *)
(* not in the MyInfo table moves the cursor by 8 + length, and the known   *)
(* fields after it are decoded as if the unknown field were absent         *)
C9_Original ==
    /\ []C9_SameValues
    /\ [][(/\ pc = "ic_field" /\ Add(offset, 8) <= blk_end
           /\ Add(offset, 8) <= Len(blk)
           /\ Chunk[1] \notin DOMAIN my_info_handlers)
          => offset' = Add(Add(offset, 8), Chunk[2])]_vars

(* the payload of the unknown field was read as headers, AIMID was never  *)
(* decoded and line 651 raised KeyError                                   *)
C9_Witness ==
    /\ pc = "raise" /\ self.INFO_CACHE_FILES = <<InfoFile(<<F_unk, I_aimid>>)>>
    /\ offset = 32 /\ self.INFO_CACHE = EmptyDict

(* ---------------------------------------------------------------------- *)
(* Properties of the helpers (checked under SpecFn)                        *)
(* ---------------------------------------------------------------------- *)

(* the frame of a finished call of fn *)
Returned(fn) == pc = "return" /\ frame.fn = fn

(* the table of content types by first character: '0'..'7' image,         *)
(* '8'..'F' video, G H I J K M N audio, L, S, and unknown for the rest     *)
C14_Table(c) ==
    CASE c = 48 -> <<105, 109, 97, 103, 101, 45, 114, 101, 103, 117, 108, 97, 114>>
      [] c = 49 -> <<105, 109, 97, 103, 101, 45, 115, 110, 97, 112>>
      [] c = 50 -> <<105, 109, 97, 103, 101, 45, 115, 116, 105, 99, 107, 101, 114>>
      [] c = 51 -> <<105, 109, 97, 103, 101, 45, 117, 110, 107, 110, 111, 119, 110>>
      [] c = 52 -> <<105, 109, 97, 103, 101, 45, 103, 105, 102, 45, 97, 110, 105, 109, 97, 116, 101, 100>>
      [] c = 53 -> <<105, 109, 97, 103, 101, 45, 103, 105, 102, 45, 97, 110, 105, 109, 97, 116, 101, 100, 45, 115, 116, 105, 99, 107, 101, 114>>
      [] c \in {54, 55} -> <<105, 109, 97, 103, 101, 45, 117, 110, 107, 110, 111, 119, 110>>
      [] c = 56 -> <<118, 105, 100, 101, 111, 45, 114, 101, 103, 117, 108, 97, 114>>
      [] c = 57 -> <<118, 105, 100, 101, 111, 45, 115, 110, 97, 112>>
      [] c = 65 -> <<118, 105, 100, 101, 111, 45, 112, 116, 115>>
      [] c = 66 -> <<118, 105, 100, 101, 111, 45, 112, 116, 115, 95, 98>>
      [] c = 67 -> <<118, 105, 100, 101, 111, 45, 117, 110, 107, 110, 111, 119, 110>>
      [] c = 68 -> <<118, 105, 100, 101, 111, 45, 115, 116, 105, 99, 107, 101, 114>>
      [] c \in {69, 70} -> <<118, 105, 100, 101, 111, 45, 117, 110, 107, 110, 111, 119, 110>>
      [] c = 71 -> <<97, 117, 100, 105, 111, 45, 114, 101, 103, 117, 108, 97, 114>>
      [] c = 72 -> <<97, 117, 100, 105, 111, 45, 115, 110, 97, 112>>
      [] c \in {73, 74} -> <<97, 117, 100, 105, 111, 45, 112, 116, 116>>
      [] c \in {75, 77, 78} -> <<97, 117, 100, 105, 111, 45, 117, 110, 107, 110, 111, 119, 110>>
      [] c = 76 -> <<108, 111, 116, 116, 105, 101, 45, 115, 116, 105, 99, 107, 101, 114>>
      [] c = 83 -> <<112, 100, 102>>
      [] OTHER -> <<117, 110, 107, 110, 111, 119, 110>>

(* C14, as stated: extract_content_type maps every first character by the  *)
(* closed table, 'D' giving video-sticker.                                 *)
C14_Original ==
    Returned("extract_content_type")
    => frame.ret.value = PyStr(C14_Table(frame.args[1][1]))

(* 'D' has been mapped, and the result is "unknown" *)
C14_Witness ==
    /\ Returned("extract_content_type")
    /\ frame.args[1] = <<68>>
    /\ frame.ret.value = PyStr(<<117, 110, 107, 110, 111, 119, 110>>)

(* the colour strings of the inputs and the hex() of their Base62 values: *)
(* "000" is 0, "abc" is 39134, "ZZ9" is 238275                            *)
C15_Hex == (<<48, 48, 48>> :> <<48, 120, 48>>) @@ (<<97, 98, 99>> :> <<48, 120, 57, 56, 100, 101>>) @@ (<<90, 90, 57>> :> <<48, 120, 51, 97, 50, 99, 51>>)

(* identifiers of images and videos ('D' aside) with Base62 at 5 and at 9 *)
C15_Sized ==
    /\ frame.fn = "decode_color" /\ pc # "call"
    /\ frame.args[1][1] \in {48, 50, 52, 56, 57, 65, 66, 67}
    /\ SubSeq(frame.args[1], 6, 8) \in DOMAIN C15_Hex
    /\ SubSeq(frame.args[1], 10, 12) \in DOMAIN C15_Hex

(* C15, as stated: the colour is the hex of characters [5..8), except for  *)
(* a video of a non-PTS subtype, where it is the hex of characters [9..12) *)
C15_Original ==
    C15_Sized
    => frame.ret =
          Returns(PyStr(IF frame.args[1][1] \in {56, 57, 67}
                        THEN C15_Hex[SubSeq(frame.args[1], 10, 12)]
                        ELSE C15_Hex[SubSeq(frame.args[1], 6, 8)]))

(* a video-regular identifier with "abc" at 5 and "ZZ9" at 9 gave the hex *)
(* of "abc"                                                               *)
C15_Witness ==
    /\ C15_Sized
    /\ frame.args[1] = FileId(56, <<97, 98, 99>>, <<90, 90, 57>>)
    /\ frame.ret = Returns(PyStr(<<48, 120, 57, 56, 100, 101>>))

(* a call of Base62.decode on the string Base62.encode(n) returned *)
RoundTrip == frame.fn = "Base62.decode" /\ frame.of # None

(* encode(n) for 0, 10, 36, 61, 62, 3843 and 62^8 - 1 *)
C16_Examples ==
    (<<>> :> <<48>>) @@ (<<10>> :> <<97>>) @@ (<<36>> :> <<65>>) @@ (<<61>> :> <<90>>)
    @@ (<<62>> :> <<49, 48>>) @@ (<<3, 15>> :> <<90, 90>>)
    @@ (<<255, 0, 111, 68, 148, 198>> :> <<90, 90, 90, 90, 90, 90, 90, 90>>)

(* C16: Base62.decode(Base62.encode(n)) returns n, without raising, for    *)
(* every n of Nums (0 .. 62^8 - 1 among them); the string is over 0-9 a-z  *)
(* A-Z with the most significant digit first                               *)
C16_RoundTrip ==
    RoundTrip
    => /\ pc # "raise"
       /\ pc = "return" => frame.ret = Returns(frame.of)
       /\ \A i \in 1..Len(frame.args[1]) : Index(CHARSET, frame.args[1][i]) >= 0
       /\ frame.of.v \in DOMAIN C16_Examples => frame.args[1] = C16_Examples[frame.of.v]

(* 62^8 - 1 was encoded as "ZZZZZZZZ" and decoded back *)
C16_Witness ==
    /\ RoundTrip /\ pc = "return"
    /\ frame.of = PyInt(<<255, 0, 111, 68, 148, 198>>)
    /\ frame.args[1] = <<90, 90, 90, 90, 90, 90, 90, 90>>
    /\ frame.ret = Returns(frame.of)

(* ---------------------------------------------------------------------- *)
(* Flags and direction (checked under Spec)                                *)
(* ---------------------------------------------------------------------- *)

(* the four bytes v of the tag-2 field of a file of FlagInputs *)
C17_V == SubSeq(File1, 33, 36)
C17_Bit(k) == (C17_V[(k \div 8) + 1] \div (2 ^ (k % 8))) % 2 = 1

(* C17: for a block [tag 1 (id 1), tag 2 (value v)] the record of id 1 has *)
(* FLAGS with exactly the keys UNREAD, OUTGOING, INVISIBLE, DELETED,        *)
(* MODIFIED, UPDATED, CLEAR, equal to bits 1, 2, 3, 5, 6, 7, 8 of v, and    *)
(* DIRECTION "OUTGOING" if bit 2 of v is set, "INCOMING" otherwise           *)
C17_Flags ==
    (pc = "return" /\ self.DB_FILES \in FlagInputs)
    => /\ DOMAIN MessagesOf(self, "u1") = {M1}
       /\ MessagesOf(self, "u1")[M1].MESSAGE.FLAGS =
             V("dict", [UNREAD |-> PyBool(C17_Bit(1)),
                        OUTGOING |-> PyBool(C17_Bit(2)),
                        INVISIBLE |-> PyBool(C17_Bit(3)),
                        DELETED |-> PyBool(C17_Bit(5)),
                        MODIFIED |-> PyBool(C17_Bit(6)),
                        UPDATED |-> PyBool(C17_Bit(7)),
                        CLEAR |-> PyBool(C17_Bit(8))])
       /\ MessagesOf(self, "u1")[M1].MESSAGE.DIRECTION =
             PyStr(IF C17_Bit(2) THEN <<79, 85, 84, 71, 79, 73, 78, 71>> ELSE <<73, 78, 67, 79, 77, 73, 78, 71>>)

(* v = 0x00000124 (bits 2, 5, 8) was decoded: outgoing, deleted, clear *)
C17_Witness ==
    /\ pc = "return" /\ self.DB_FILES \in FlagInputs /\ C17_V = <<36, 1, 0, 0>>
    /\ MessagesOf(self, "u1")[M1].MESSAGE.DIRECTION = PyStr(<<79, 85, 84, 71, 79, 73, 78, 71>>)
    /\ MessagesOf(self, "u1")[M1].MESSAGE.FLAGS.v.DELETED = PyBool(TRUE)
    /\ MessagesOf(self, "u1")[M1].MESSAGE.FLAGS.v.UNREAD = PyBool(FALSE)

(* ---------------------------------------------------------------------- *)
(* read_time (checked under SpecFn)                                        *)
(* ---------------------------------------------------------------------- *)

(* a finished call of read_time on a field of length 4 whose four bytes    *)
(* are in the block                                                        *)
C18_Call ==
    /\ frame.fn = "read_time" /\ pc # "call"
    /\ frame.args[1][2] = 4
    /\ Len(frame.args[2]) >= frame.args[3] + 12
C18_Payload == SubSeq(frame.args[2], frame.args[3] + 9, frame.args[3] + 12)

(* YYYY-MM-DD HH:MM:SS *)
C18_Shape(s) ==
    /\ Len(s) = 19
    /\ s[5] = 45 /\ s[8] = 45 /\ s[11] = 32 /\ s[14] = 58 /\ s[17] = 58
    /\ \A i \in (1..19) \ {5, 8, 11, 14, 17} : s[i] >= 48 /\ s[i] <= 57

(* epochs 1, 86400, 951807232, 2^31 - 2 *)
C18_Examples ==
    (<<1, 0, 0, 0>> :> <<49, 57, 55, 48, 45, 48, 49, 45, 48, 49, 32, 48, 48, 58, 48, 48, 58, 48, 49>>)
    @@ (<<128, 81, 1, 0>> :> <<49, 57, 55, 48, 45, 48, 49, 45, 48, 50, 32, 48, 48, 58, 48, 48, 58, 48, 48>>)
    @@ (<<0, 109, 187, 56>> :> <<50, 48, 48, 48, 45, 48, 50, 45, 50, 57, 32, 48, 54, 58, 53, 51, 58, 53, 50>>)
    @@ (<<254, 255, 255, 127>> :> <<50, 48, 51, 56, 45, 48, 49, 45, 49, 57, 32, 48, 51, 58, 49, 52, 58, 48, 54>>)

(* C18: read_time on a 4-byte payload returns None exactly for the epochs  *)
(* 0 and 0xFFFFFFFF, a YYYY-MM-DD HH:MM:SS string for every epoch in       *)
(* [1, 2^31 - 2], and in both cases the cursor offset + 8 + length          *)
C18_Time ==
    C18_Call
    => /\ pc = "return"
       /\ (frame.ret.value = None)
             <=> (C18_Payload \in {<<0, 0, 0, 0>>, <<255, 255, 255, 255>>})
       /\ frame.ret.value # None
             => frame.ret.value.t = "str" /\ C18_Shape(frame.ret.value.v)
       /\ C18_Payload \in DOMAIN C18_Examples
             => frame.ret.value = PyStr(C18_Examples[C18_Payload])
       /\ frame.ret.offset = frame.args[3] + 8 + 4

(* epoch 0 after a tag-1 field: None, cursor 16 + 12 *)
C18_Witness ==
    /\ C18_Call /\ pc = "return"
    /\ C18_Payload = <<0, 0, 0, 0>> /\ frame.args[3] = 16
    /\ frame.ret.value = None /\ frame.ret.offset = 28

(* epoch 2^31 - 2: a timestamp, cursor 12 *)
C18_WitnessMax ==
    /\ C18_Call /\ pc = "return"
    /\ C18_Payload = <<254, 255, 255, 127>> /\ frame.args[3] = 0
    /\ frame.ret.value = PyStr(<<50, 48, 51, 56, 45, 48, 49, 45, 49, 57, 32, 48, 51, 58, 49, 52, 58, 48, 54>>) /\ frame.ret.offset = 12

(* ---------------------------------------------------------------------- *)
(* check_partial_match (checked under SpecFn)                              *)
(* ---------------------------------------------------------------------- *)

(* the length of the longest common prefix of two strings *)
C19_Lcp(a, b) ==
    CHOOSE n \in 0..Len(a) :
        /\ n <= Len(b)
        /\ SubSeq(a, 1, n) = SubSeq(b, 1, n)
        /\ (n < Len(a) /\ n < Len(b)) => a[n + 1] # b[n + 1]

(* C19: check_partial_match(value, filename) is true iff the longest       *)
(* common prefix of value and filename has at least floor(len(filename)/2) *)
(* characters (2 * prefix + 1 >= len(filename)); "abcxyz" against          *)
(* "abcdef" is true, "abxxxx" is false                                     *)
C19_PartialMatch ==
    Returned("check_partial_match")
    => /\ frame.ret.value =
             PyBool(2 * C19_Lcp(frame.args[1], frame.args[2]) + 1 >= Len(frame.args[2]))
       /\ frame.args = <<<<97, 98, 99, 120, 121, 122>>, <<97, 98, 99, 100, 101, 102>>>> => frame.ret.value = PyBool(TRUE)
       /\ frame.args = <<<<97, 98, 120, 120, 120, 120>>, <<97, 98, 99, 100, 101, 102>>>> => frame.ret.value = PyBool(FALSE)

(* "abcxyz" against "abcdef": prefix 3 of 6, true *)
C19_Witness ==
    /\ Returned("check_partial_match")
    /\ frame.args = <<<<97, 98, 99, 120, 121, 122>>, <<97, 98, 99, 100, 101, 102>>>>
    /\ frame.ret.value = PyBool(TRUE)

(* ---------------------------------------------------------------------- *)
(* Properties of correlate_data (checked under SpecCorr)                   *)
(* ---------------------------------------------------------------------- *)

(* the texts with a malformed identifier: no "/get/", fewer than 30        *)
(* characters, a character outside Base62 in the size                      *)
C12_Malformed == {PyStr(T_noget), PyStr(T_short), PyStr(T_baduri)}
C12_IsMalformed(msg) == Has(msg.MESSAGE, "TEXT") /\ msg.MESSAGE.TEXT \in C12_Malformed

(* the message Step 6 is at *)
C12_Current == MessagesOf(self, frame.uid)[frame.msg_id]

(* the messages Step 6 is done with *)
C12_Visited ==
    IF pc \in {"corr_uri", "corr_cache", "corr_hashes", "return"}
    THEN AllMessages(self) \ frame.todo
    ELSE {}

(* Step 6 gave the message a SharedContentDetails of its own *)
C12_Annotated(msg) ==
    /\ Has(msg, "SharedContentDetails")
    /\ ~msg["SharedContentDetails"].ref
    /\ Has(msg["SharedContentDetails"].d, "URI_DECODED_METADATA")

(* C12, as stated: a message whose field starts with hxxps://files.icq.net *)
(* and carries a malformed identifier raises nothing in Step 6 and stays   *)
(* unannotated.                                                            *)
C12_Original ==
    /\ (pc = "raise" /\ frame.exc \in {"IndexError", "ValueError"})
           => ~C12_IsMalformed(C12_Current)
    /\ \A p \in C12_Visited :
           C12_IsMalformed(MessagesOf(self, p[1])[p[2]])
               => ~C12_Annotated(MessagesOf(self, p[1])[p[2]])

(* line 1300 raised IndexError at a text without "/get/", with messages    *)
(* still to visit                                                          *)
C12_Witness ==
    /\ pc = "raise" /\ frame.exc = "IndexError"
    /\ C12_Current.MESSAGE.TEXT = PyStr(T_noget)
    /\ frame.todo # {}

(* a character outside Base62 raised ValueError *)
C12_WitnessValue ==
    /\ pc = "raise" /\ frame.exc = "ValueError"
    /\ C12_Current.MESSAGE.TEXT = PyStr(T_baduri)

(* a short identifier was annotated with null metadata *)
C12_WitnessShort ==
    /\ pc = "return"
    /\ \E p \in C12_Visited :
          /\ MessagesOf(self, p[1])[p[2]].MESSAGE.TEXT = PyStr(T_short)
          /\ C12_Annotated(MessagesOf(self, p[1])[p[2]])
          /\ MessagesOf(self, p[1])[p[2]]["SharedContentDetails"].d["URI_DECODED_METADATA"]
                = [URI_DECODED_CONTENT_TYPE |-> None,
                   URI_DECODED_CONTENT_TIMESTAMP |-> None,
                   URI_DECODED_CONTENT_SIZE |-> None]

(* no content.cache directory was found, or it is there and MESSAGES is    *)
(* empty                                                                   *)
C13_NoCache == self.CACHE_DIR = None
C13_NoMessages ==
    /\ self.CACHE_DIR # None
    /\ Has(disk, self.CACHE_DIR.v)
    /\ DOMAIN self.MESSAGES = {}

(* C13, as stated: with CACHE_DIR unset, or with the cache directory there *)
(* and no messages, Steps 7-9 of correlate_data raise nothing.             *)
C13_Original ==
    (C13_NoCache \/ C13_NoMessages) => ~(pc = "raise" /\ frame.line \in {1309, 1334})

(* Steps 1-6 are done for the messages of u1, CACHE_DIR is None and line   *)
(* 1309 raised TypeError                                                   *)
C13_Witness ==
    /\ pc = "raise" /\ frame.exc = "TypeError" /\ frame.line = 1309
    /\ C13_NoCache
    /\ frame.todo = {} /\ Has(self.MESSAGES, "u1")
    /\ Has(self.CONTACT_LIST["u1"], "MessagesTotal")

(* the directory is there, MESSAGES is empty and line 1334 raised          *)
(* AttributeError, after CACHE_FILES and URL_METADATA were set             *)
C13_WitnessEmpty ==
    /\ pc = "raise" /\ frame.exc = "AttributeError" /\ frame.line = 1334
    /\ C13_NoMessages
    /\ DOMAIN self.CACHE_FILES = DOMAIN disk[self.CACHE_DIR.v]

(* the number of messages of uid whose MESSAGE.DIRECTION is dir *)
C20_Count(uid, dir) ==
    Cardinality({m \in DOMAIN MessagesOf(self, uid) :
                    /\ Has(MessagesOf(self, uid)[m].MESSAGE, "DIRECTION")
                    /\ MessagesOf(self, uid)[m].MESSAGE.DIRECTION = dir})

RECURSIVE C20_Sum(_, _)
C20_Sum(uids, dir) ==
    IF uids = {} THEN 0
    ELSE C20_Count(CHOOSE u \in uids : TRUE, dir)
         + C20_Sum(uids \ {CHOOSE u \in uids : TRUE}, dir)

(* Step 3 is done *)
C20_Counted ==
    pc \in {"corr_states", "corr_splice", "corr_uri", "corr_cache", "corr_hashes",
            "return", "raise"}

C20_Contact(uid) ==
    /\ Has(self.CONTACT_LIST, uid)
    /\ self.CONTACT_LIST[uid]["MessagesSent"] = PyNat(C20_Count(uid, OUTGOING))
    /\ self.CONTACT_LIST[uid]["MessagesReceived"] = PyNat(C20_Count(uid, INCOMING))
    /\ self.CONTACT_LIST[uid]["MessagesTotal"]
          = PyNat(C20_Count(uid, OUTGOING) + C20_Count(uid, INCOMING))

C20_Totals ==
    /\ self.INFO_CACHE["TOTAL_SENT"] = PyNat(C20_Sum(DOMAIN self.MESSAGES, OUTGOING))
    /\ self.INFO_CACHE["TOTAL_RCVD"] = PyNat(C20_Sum(DOMAIN self.MESSAGES, INCOMING))
    /\ self.INFO_CACHE["TOTAL_ALL"]
          = PyNat(C20_Sum(DOMAIN self.MESSAGES, OUTGOING)
                  + C20_Sum(DOMAIN self.MESSAGES, INCOMING))

(* C20: once Step 3 of correlate_data is done, and so after it returns,    *)
(* every user-id of MESSAGES has a contact whose MessagesSent and          *)
(* MessagesReceived are the numbers of its OUTGOING and INCOMING messages, *)
(* MessagesTotal is their sum, and TOTAL_SENT, TOTAL_RCVD and TOTAL_ALL    *)
(* are the sums over the user-ids.                                         *)
C20_Counts ==
    C20_Counted => /\ \A uid \in DOMAIN self.MESSAGES : C20_Contact(uid)
                   /\ C20_Totals

(* correlate_data returned with two user-ids of one OUTGOING and one       *)
(* INCOMING message each                                                   *)
C20_Witness ==
    /\ pc = "return"
    /\ DOMAIN self.MESSAGES = {"u1", "c1@chat.agent"}
    /\ \A uid \in DOMAIN self.MESSAGES :
          /\ self.CONTACT_LIST[uid]["MessagesSent"] = PyNat(1)
          /\ self.CONTACT_LIST[uid]["MessagesReceived"] = PyNat(1)
          /\ self.CONTACT_LIST[uid]["MessagesTotal"] = PyNat(2)
    /\ self.INFO_CACHE["TOTAL_SENT"] = PyNat(2)
    /\ self.INFO_CACHE["TOTAL_ALL"] = PyNat(4)

(* C21, as stated: when correlate_data has returned, every contact whose   *)
(* user-id has shared files carries the media-type counters of that        *)
(* user-id, and every contact has the ConversationType of its user-id.     *)
C21_Media(uid) ==
    Has(self.SHARED_FILES, uid) =>
        /\ Has(self.CONTACT_LIST[uid], "MediaInCommon")
        /\ self.CONTACT_LIST[uid]["MediaInCommon"] = self.SHARED_FILES[uid][K_MediaTypes]
C21_Type(uid) ==
    /\ Has(self.CONTACT_LIST[uid], "ConversationType")
    /\ self.CONTACT_LIST[uid]["ConversationType"] = conversation_type(uid)
C21_Original ==
    pc = "return" => \A uid \in DOMAIN self.CONTACT_LIST : C21_Media(uid) /\ C21_Type(uid)

(* the conversation types alone hold *)
C21_Types ==
    pc = "return" => \A uid \in DOMAIN self.CONTACT_LIST : C21_Type(uid)

(* u1 has messages and shared files and was not in cache.cl: its stub has  *)
(* no MediaInCommon                                                        *)
C21_Witness ==
    /\ pc = "return"
    /\ Has(self.SHARED_FILES, "u1") /\ Has(self.CONTACT_LIST, "u1")
    /\ Has(self.CONTACT_LIST["u1"], "MESSAGE_FROM_NON_CONTACT")
    /\ ~Has(self.CONTACT_LIST["u1"], "MediaInCommon")
    /\ self.CONTACT_LIST["u1"]["ConversationType"] = PyStr(S_PRIVATE)

(* C24, as stated: no step of correlate_data changes SHARED_FILES: every   *)
(* user-id keeps the same keys with the same values.                       *)
C24_Original == [][self'.SHARED_FILES = self.SHARED_FILES]_vars

(* Step 1 added the keys "MediaTypes" and "NumberOfSharedItems" to the     *)
(* shared-file map of u1, next to its one record                           *)
C24_Witness ==
    /\ pc = "return"
    /\ Has(self.SHARED_FILES, "u1")
    /\ DOMAIN self.SHARED_FILES["u1"] = {PyNat(1), K_MediaTypes, K_NumberOfSharedItems}
    /\ self.SHARED_FILES["u1"][K_NumberOfSharedItems] = PyNat(1)
    /\ self.SHARED_FILES["u1"][K_MediaTypes]["IMAGES"] = PyNat(1)

(* Step 7 wrote SHARED_CONTENT_FILE_METADATA into the record of message 2  *)
(* through the SharedContentDetails that Step 5 made the same dict         *)
C24_WitnessRecord ==
    /\ pc = "return"
    /\ Has(self.SHARED_FILES, "u1") /\ Has(self.SHARED_FILES["u1"], PyNat(2))
    /\ Has(self.SHARED_FILES["u1"][PyNat(2)], "SHARED_CONTENT_FILE_METADATA")
    /\ MessagesOf(self, "u1")[PyNat(2)]["SharedContentDetails"].ref

(* C29, as stated: a pass of Step 6 over one message only adds: where the  *)
(* message had SharedContentDetails without URI_DECODED_METADATA before    *)
(* the pass, every field SharedContentDetails held is still present with   *)
(* the same value after it.                                                *)
C29_Held(s, u, m) == Details(s, u, m, MessagesOf(s, u)[m])
C29_Kept(u, m) ==
    (/\ Has(MessagesOf(self, u)[m], "SharedContentDetails")
     /\ ~Has(C29_Held(self, u, m), "URI_DECODED_METADATA"))
    => \A k \in DOMAIN C29_Held(self, u, m) :
          /\ Has(C29_Held(self', u, m), k)
          /\ C29_Held(self', u, m)[k] = C29_Held(self, u, m)[k]
C29_Original ==
    [][pc = "corr_uri" =>
          \A u \in DOMAIN self.MESSAGES : \A m \in DOMAIN MessagesOf(self, u) : C29_Kept(u, m)]_vars

(* Step 5 spliced the record of shared file 1 into message 1 of u1, whose  *)
(* TEXT is a files.icq.net link; after Step 6 the message's                *)
(* SharedContentDetails is a dict of its own holding URI_DECODED_METADATA  *)
(* alone, and SHARED_CONTENT_TYPE of the record is no longer in it         *)
C29_Witness ==
    /\ pc \in {"corr_cache", "corr_hashes", "return"}
    /\ Has(self.MESSAGES, "u1") /\ Has(self.SHARED_FILES, "u1")
    /\ Has(MessagesOf(self, "u1"), PyNat(1)) /\ Has(self.SHARED_FILES["u1"], PyNat(1))
    /\ Has(self.SHARED_FILES["u1"][PyNat(1)], "SHARED_CONTENT_TYPE")
    /\ ~Has(self.SHARED_FILES["u1"][PyNat(1)], "URI_DECODED_METADATA")
    /\ Has(MessagesOf(self, "u1")[PyNat(1)], "SharedContentDetails")
    /\ ~MessagesOf(self, "u1")[PyNat(1)]["SharedContentDetails"].ref
    /\ DOMAIN MessagesOf(self, "u1")[PyNat(1)]["SharedContentDetails"].d \subseteq
          {"URI_DECODED_METADATA", "SHARED_CONTENT_FILE_METADATA"}

(* tag 1 reopens an id whose record has a stored TEXT while the scratch    *)
(* cell is null: no tag 5 since the last tag 1 or the start of the block   *)
C28_Reopen ==
    /\ InFieldLoop /\ Chunk[1] = 1 /\ ReadId.ok
    /\ self.msg = None
    /\ Has(self.PARK[self.uid], ReadId.value)
    /\ Has(self.PARK[self.uid][ReadId.value]["MESSAGE"], "TEXT")

(* C28, as stated: when tag 1 reopens a message id whose record has a      *)
(* stored TEXT and the scratch cell is null, the stored TEXT is left       *)
(* unchanged: nothing is appended to it.                                   *)
C28_Original ==
    [][C28_Reopen =>
          self'.PARK[self.uid][ReadId.value]["MESSAGE"]["TEXT"] =
              self.PARK[self.uid][ReadId.value]["MESSAGE"]["TEXT"]]_vars

(* "a", tag 1, tag 1 of the same id: the second tag 1 found the cell null  *)
(* and the stored "a" became "a\nNone"                                     *)
C28_Witness ==
    /\ pc = "return" /\ self.DB_FILES = In1(Block(<<F_a, F_id1, F_id1>>))
    /\ Msg1["TEXT"] = PyStr(<<97, 10>> \o S_None)

(* ---------------------------------------------------------------------- *)
(* Properties of get_dlg_state (checked under SpecDlg)                     *)
(* ---------------------------------------------------------------------- *)
DlgChunk == UnpackII(blk, offset)
DlgAtField == pc \in {"dlg_field", "dlg_inner"} /\ Add(offset, 8) <= Len(blk)

(* the two heads of Fd_heads2, under their ordinals *)
C22_Heads ==
    [HEAD_AIMID_1 |-> PyStr(T_a), HEAD_FRIENDLY_NAME_1 |-> PyStr(T_b),
     HEAD_AIMID_2 |-> PyStr(T_w), HEAD_FRIENDLY_NAME_2 |-> PyStr(T_hello)]
C22_HasHeads(d) == \A k \in DOMAIN C22_Heads : Has(d, k) /\ d[k] = C22_Heads[k]

(* the files whose block holds the tag-20 field with two heads, without    *)
(* and with a tag-7 field before it                                        *)
C22_Plain == {DlgIn1(Block(<<Fd_heads2>>)), DlgIn1(Block(<<Fd_heads2, Fd_name>>))}
C22_AfterSeven == {DlgIn1(Block(<<Fd_subid, Fd_heads2>>)),
                   DlgIn1(Block(<<Fd_sub, Fd_heads2, Fd_name>>))}

C22_Stored(inputs) ==
    (pc = "return" /\ self.DIALOG_STATE_FILES \in inputs)
    => C22_HasHeads(self.DIALOG_STATES["u1"])
C22_Cursor(at) ==
    (DlgAtField /\ pc \in at /\ DlgChunk[1] = 20)
    => offset' = Add(offset, Add(8, DlgChunk[2]))

(* C22, as stated: a tag-20 field of a dialog-state block is decoded as a  *)
(* nested block: its heads are stored under HEAD_AIMID_1,                  *)
(* HEAD_FRIENDLY_NAME_1, HEAD_AIMID_2, ... and the cursor is left exactly  *)
(* at the end of the tag-20 payload, whether or not a tag 7 came before.   *)
C22_Original ==
    /\ [](C22_Stored(C22_Plain) /\ C22_Stored(C22_AfterSeven))
    /\ [][C22_Cursor({"dlg_field", "dlg_inner"})]_vars

(* the same for a tag-20 field that follows a tag 7 in its block: it is    *)
(* read by read_heads                                                      *)
C22_Inner ==
    /\ []C22_Stored(C22_AfterSeven)
    /\ [][C22_Cursor({"dlg_inner"})]_vars

(* the block [tag 20 with two heads]: get_dlg_state returned and stored    *)
(* nothing for u1                                                          *)
C22_Witness ==
    /\ pc = "return" /\ self.DIALOG_STATE_FILES = DlgIn1(Block(<<Fd_heads2>>))
    /\ self.DIALOG_STATES["u1"] = EmptyDict

(* with a tag 7 before it the heads are stored under their ordinals *)
C22_WitnessInner ==
    /\ pc = "return" /\ self.DIALOG_STATE_FILES = DlgIn1(Block(<<Fd_subid, Fd_heads2>>))
    /\ C22_HasHeads(self.DIALOG_STATES["u1"])

(* an iteration of a field loop of get_dlg_state that raises nothing       *)
(* leaves the cursor further on                                            *)
C26_Advance == [][(DlgAtField /\ pc' # "raise") => offset' > offset]_vars

(* C26, as stated: the decoder terminates: get_dlg_state returns or raises *)
(* on every input, because each iteration of its field loops, the loop     *)
(* after tag 7 included, strictly advances the cursor.                     *)
C26_Original == <>(pc \in {"return", "raise"})

(* the loop after tag 7 is at a field whose tag, 4096, is no key of        *)
(* handlers: the iteration changes neither the cursor nor anything else,   *)
(* and the loop condition stays true                                       *)
C26_Witness ==
    /\ pc = "dlg_inner" /\ Add(offset, 8) <= Len(blk)
    /\ DlgChunk[1] = 4096 /\ DlgChunk[1] \notin DOMAIN handlers
    /\ dlg_inner_dispatch(self, DlgUid, DlgChunk, blk, offset).offset = offset
    /\ dlg_inner_dispatch(self, DlgUid, DlgChunk, blk, offset).self = self

(* the block [tag 7 with the payload (tag 1, tag 5 "b")], [tag 12 "a"],    *)
(* [tag 8 true]: the two fields after the sub-block are dialog-state       *)
(* fields                                                                  *)
C23_File == DlgIn1(Block(<<Fd_subid, Fd_name, Fd_visible>>))

(* the loop after tag 7 is at work inside the payload of the tag 7 only *)
C23_InSub == (pc = "dlg_inner" /\ DlgAtField) => offset < frame.sub_end
(* the fields after the payload are decoded with the dialog-state table *)
C23_Later ==
    (pc = "return" /\ self.DIALOG_STATE_FILES = C23_File)
    => /\ Has(self.DIALOG_STATES["u1"], "FRIENDLY_NAME")
       /\ self.DIALOG_STATES["u1"]["FRIENDLY_NAME"] = PyStr(T_a)
       /\ Has(self.DIALOG_STATES["u1"], "VISIBLE")
       /\ self.DIALOG_STATES["u1"]["VISIBLE"] = PyBool(TRUE)

(* C23, as stated: after tag 7 the loop that decodes with the              *)
(* message-history table runs only until the size of the sub-block is      *)
(* exhausted; the fields after it are decoded with the dialog-state table  *)
(* again.                                                                  *)
C23_Original == C23_InSub /\ C23_Later

(* get_dlg_state returned: tag 12 after the sub-block was stored as        *)
(* CHAT_NAME, the name of tag 12 in handlers, and tag 8 stored nothing     *)
C23_Witness ==
    /\ pc = "return" /\ self.DIALOG_STATE_FILES = C23_File
    /\ self.DIALOG_STATES["u1"] =
          [LAST_MESSAGE_CONTENT_SIZE |-> None, MESSAGE_ID |-> PyInt(<<1>>),
           TEXT |-> PyStr(T_b), CHAT_NAME |-> PyStr(T_a)]

(* the file of two blocks [tag 12 "a"] and [tag 1 (2), tag 8 true] *)
C27_File == DlgIn1(Block(<<Fd_name>>) \o Block(<<Fd_unread, Fd_visible>>))

(* the field loop of a block is entered with the cursor at 0 *)
C27_Start == (pc = "dlg_block" /\ pc' = "dlg_field") => offset' = 0
(* the second block gives its values whatever the length of the first *)
C27_Second ==
    (pc = "return" /\ self.DIALOG_STATE_FILES = C27_File)
    => self.DIALOG_STATES["u1"] =
          [FRIENDLY_NAME |-> PyStr(T_a), UNREAD_COUNT |-> PyInt(<<2>>),
           VISIBLE |-> PyBool(TRUE)]

(* C27, as stated: the field decoding of every block of a dialog-state     *)
(* file starts at cursor 0 of that block, so the values decoded from a     *)
(* later block do not depend on the lengths of the blocks before it.       *)
C27_Original == [][C27_Start]_vars /\ []C27_Second

(* the field loop of the second block of a file was entered with the       *)
(* cursor where the first block left it                                    *)
C27_Witness ==
    /\ pc = "dlg_field" /\ Len(sizes) = 1 /\ offset = sizes[1] /\ offset > 0
    /\ self.DIALOG_STATE_FILES = C27_File

(* get_dlg_state returned and the second block gave no value *)
C27_WitnessValues ==
    /\ pc = "return" /\ self.DIALOG_STATE_FILES = C27_File
    /\ self.DIALOG_STATES["u1"] = [FRIENDLY_NAME |-> PyStr(T_a)]

(* the files of u1 are an empty file and then a file of one block that     *)
(* opens message 1                                                         *)
C30_Files == << <<"u1", << <<>>, Block(<<F_id1>>)>>>> >>

(* C30, as stated: a zero-length message-history file is skipped without   *)
(* stopping the decoder: get_db_content returns only when the files of     *)
(* every user-id have been read, so the files after an empty one are       *)
(* decoded.                                                                *)
C30_Original ==
    pc = "return" =>
        /\ ui > Len(self.DB_FILES)
        /\ self.DB_FILES = C30_Files => Has(self.PARK["u1"], M1)

(* get_db_content returned at the empty file: the second file of u1 was    *)
(* never opened and message 1 is in no record                              *)
C30_Witness ==
    /\ pc = "return" /\ self.DB_FILES = C30_Files
    /\ ui = 1 /\ fi = 2
    /\ self.PARK["u1"] = EmptyDict
    /\ MessagesOf(self, "u1") = EmptyDict

(* ---------------------------------------------------------------------- *)
(* Properties of get_drafts (checked under SpecDraft)                      *)
(* ---------------------------------------------------------------------- *)

(* the tags of the fields of a draft file, one after the other *)
RECURSIVE C25_Tags(_, _)
C25_Tags(b, off) ==
    IF Add(off, 8) > Len(b) THEN {}
    ELSE {UnpackII(b, off)[1]} \cup C25_Tags(b, Add(off, Add(8, UnpackII(b, off)[2])))

(* no draft file of the item has a tag-1 field *)
C25_NoState(item) == \A k \in 1..Len(item[2]) : 1 \notin C25_Tags(item[2][k], 0)

(* the draft records of a uid whose files have no tag 1 hold no            *)
(* DRAFT_STATE                                                             *)
C25_Own ==
    \A k \in 1..Len(self.DRAFT_FILES) :
        (C25_NoState(self.DRAFT_FILES[k]) /\ Has(self.DRAFTS, self.DRAFT_FILES[k][1]))
        => \A ts \in DOMAIN self.DRAFTS[self.DRAFT_FILES[k][1]] :
              ~Has(self.DRAFTS[self.DRAFT_FILES[k][1]][ts], "DRAFT_STATE")

(* C25, as stated: get_drafts leaves the park map PARK unchanged, and a    *)
(* DRAFT_STATE decoded for one draft never appears in the draft record of  *)
(* another user-id that has no tag-1 field.                                *)
C25_Original == [][self'.PARK = self.PARK]_vars /\ []C25_Own

(* the draft of u1 is [tag 1 (1), tag 2], the draft of u2 is [tag 2]:      *)
(* get_drafts has returned, PARK holds DRAFT_STATE and the draft record of *)
(* u2 holds the DRAFT_STATE of u1                                          *)
C25_Witness ==
    /\ pc = "return"
    /\ self.DRAFT_FILES = << <<"u1", <<Dr_state \o Dr_time>>>>, <<"u2", <<Dr_time2>>>> >>
    /\ self.PARK = [DRAFT_STATE |-> PyInt(<<1>>)]
    /\ DOMAIN self.DRAFTS["u2"] = {PyInt(Time2)}
    /\ Has(self.DRAFTS["u2"][PyInt(Time2)], "DRAFT_STATE")
    /\ self.DRAFTS["u2"][PyInt(Time2)]["DRAFT_STATE"] = PyInt(<<1>>)

====
